---- MODULE Spec2Model ----
(***************************************************************************)
(* A model of ZODB/DB.py: the connection pools (ConnectionPool,            *)
(* KeyedConnectionPool), the database coordinator DB with its reentrant    *)
(* lock, and the snapshot-key normalisation getTID.                        *)
(*                                                                         *)
(* Connections are the numbers 1..MaxConns.  An idle entry of a pool's     *)
(* `available` list is the record [t |-> enqueue time, c |-> connection],  *)
(* the tuple (time.time(), c) of the source.  A pool is the record         *)
(* [size, timeout, all, available].                                        *)
(***************************************************************************)
EXTENDS Integers, Sequences, FiniteSets, TLC

\* ----------------------------------------------------------------- bounds
MaxConns == 2
MaxTime == 1
MaxNgc == 1
MaxSize == 2
MaxTid == 3
MaxOpens == 5
MaxCloses == 3
MaxCache == 2

Conns == 1..MaxConns
\* The connections of a caller that opens one after another and closes none.
ManyConns == 1..MaxOpens
Warmths == 0..MaxNgc
Sizes == 0..MaxSize
Timeouts == 0..MaxTime
Threads == {1, 2}
\* The snapshot keys open is asked for: up to the successor of the latest
\* transaction the storage commits.
Keys == 1..(MaxTid + 1)
NoConn == 0
NoKey == 0
NoThread == 0

VARIABLES
    now,          \* the value time.time() returns
    pool,         \* DB.pool, a ConnectionPool
    hpool,        \* DB.historical_pool, a KeyedConnectionPool
    ngc,          \* c._cache.cache_non_ghost_count of every connection
    cbefore,      \* c.before of every connection (NoKey: a live connection)
    born,         \* the connections constructed so far
    released,     \* how many times c._release_resources() was called
    invlog,       \* the c.invalidate(tid, oids) calls each connection received
    held,         \* the connections each thread has checked out
    lock,         \* the RLock of DB.__init__: [owner, count]
    pc,           \* each thread's position
    call,         \* each thread's locals in the DB method it runs
    lastTid,      \* storage.lastTransaction()
    csize,        \* DB._cache_size, DB._historical_cache_size, c._cache.cache_size
    root,         \* the storage holds an object at the root oid z64
    ev,           \* the operation that completed last, its inputs and results
    idleChanged,  \* some connection's non-ghost count changed while it was idle
    hist,         \* the latest open and close calls, oldest first
    watch         \* what ev, hist and idleChanged record; fixed by each specification

vars == <<now, pool, hpool, ngc, cbefore, born, released, invlog, held, lock,
          pc, call, lastTid, csize, root, ev, idleChanged, hist, watch>>

\* ------------------------------------------------------------ sequences
ConnsOf(av) == {av[i].c : i \in 1..Len(av)}

InsertAt(s, i, e) == SubSeq(s, 1, i) \o <<e>> \o SubSeq(s, i + 1, Len(s))

\* An assignment to available[:] that keeps every entry.
FilterNothing(av, S) == av

RECURSIVE FilterOut(_, _)
FilterOut(av, S) ==
    IF av = <<>> THEN <<>>
    ELSE IF Head(av).c \in S THEN FilterOut(Tail(av), S)
    ELSE <<Head(av)>> \o FilterOut(Tail(av), S)

\* --------------------------------------------------------- ConnectionPool
NewPool(size, timeout) ==
    [size |-> size, timeout |-> timeout, all |-> {}, available |-> <<>>]

\* The while loop of _append: i walks down from len(available) - 1 while the
\* entry before it is warmer than c.
RECURSIVE ScanBack(_, _, _, _)
ScanBack(av, g, w, i) ==
    IF i # 0 /\ g[av[i].c] > w THEN ScanBack(av, g, w, i - 1) ELSE i

\* An _append that always inserts in front.
PoolAppendFirst(av, g, c, t) == <<[t |-> t, c |-> c]>> \o av

\* An _append that always appends: a plain stack.
PoolAppendLast(av, g, c, t) == Append(av, [t |-> t, c |-> c])

\* _append(c) at time t; g gives every connection's non-ghost count.
PoolAppend(av, g, c, t) ==
    LET e == [t |-> t, c |-> c]
    IN  IF Len(av) > 0 /\ g[av[Len(av)].c] > g[c]
        THEN InsertAt(av, ScanBack(av, g, g[c], Len(av) - 1), e)
        ELSE Append(av, e)

\* A _reduce_size that ignores strictly_less.
ReduceTargetSame(size, strictly_less) == size

\* The target of _reduce_size.
ReduceTarget(size, strictly_less) == IF strictly_less THEN size - 1 ELSE size

\* The while loop of _reduce_size on st = [av, all, rel, err]: rel collects the
\* connections whose _release_resources was called. available.pop(0) on an
\* empty list raises IndexError, all.remove(c) of an absent c raises KeyError.
RECURSIVE ReduceLoop(_, _, _)
ReduceLoop(st, target, threshhold) ==
    IF Len(st.av) > target \/ (Len(st.av) > 0 /\ st.av[1].t < threshhold)
    THEN IF Len(st.av) = 0 THEN [st EXCEPT !.err = "IndexError"]
         ELSE IF st.av[1].c \notin st.all
         THEN [st EXCEPT !.av = Tail(@), !.err = "KeyError"]
         ELSE ReduceLoop([st EXCEPT !.av = Tail(@), !.all = @ \ {st.av[1].c},
                                    !.rel = Append(@, st.av[1].c)],
                         target, threshhold)
    ELSE st

\* The pool p when the loop of _reduce_size ended in st: [p, rel, err].
Reduced(p, st) ==
    [p |-> [p EXCEPT !.available = st.av, !.all = st.all],
     rel |-> st.rel, err |-> st.err]

\* _reduce_size(strictly_less) of pool p at time t: [p, rel, err].
PoolReduce(p, strictly_less, t) ==
    Reduced(p, ReduceLoop([av |-> p.available, all |-> p.all, rel |-> <<>>,
                           err |-> "ok"],
                          ReduceTarget(p.size, strictly_less), t - p.timeout))

\* A push that logs a critical problem from twice the limit on.
PushLogAtTwice(n, limit) ==
    IF n > limit THEN (IF n >= 2 * limit THEN "critical" ELSE "warn") ELSE "none"

\* The message push logs: none, a warning or a critical problem.
PushLog(n, limit) ==
    IF n > limit THEN (IF n > 2 * limit THEN "critical" ELSE "warn") ELSE "none"

\* The end of push(c) with the pool q after _append and the connections rel
\* that _reduce_size released.
PushLogged(q, rel) ==
    [p |-> q, rel |-> rel, err |-> "ok",
     log |-> PushLog(Cardinality(q.all), q.size)]

\* push(c) after its _reduce_size returned r.
PushReduced(r, g, c, t) ==
    IF r.err # "ok"
    THEN [p |-> r.p, rel |-> r.rel, err |-> r.err, log |-> "none"]
    ELSE PushLogged([r.p EXCEPT !.all = @ \cup {c},
                                !.available = PoolAppend(@, g, c, t)], r.rel)

\* push(c): [p, rel, err, log]. `assert c not in self.available` compares c
\* with (time, connection) tuples and never fails.
PoolPush(p, g, c, t) ==
    IF c \in p.all THEN [p |-> p, rel |-> <<>>, err |-> "AssertionError",
                         log |-> "none"]
    ELSE PushReduced(PoolReduce(p, TRUE, t), g, c, t)

\* repush(c) after its _reduce_size returned r.
RepushReduced(r, g, c, t) ==
    IF r.err # "ok" THEN r
    ELSE [p |-> [r.p EXCEPT !.available = PoolAppend(@, g, c, t)],
          rel |-> r.rel, err |-> "ok"]

\* repush(c): [p, rel, err].
PoolRepush(p, g, c, t) ==
    IF c \notin p.all THEN [p |-> p, rel |-> <<>>, err |-> "AssertionError"]
    ELSE RepushReduced(PoolReduce(p, TRUE, t), g, c, t)

\* pop() that takes the entry in front.
PoolPopFront(p) ==
    IF p.available = <<>> THEN [p |-> p, result |-> NoConn, err |-> "ok"]
    ELSE [p |-> [p EXCEPT !.available = Tail(@)],
          result |-> p.available[1].c, err |-> "ok"]

\* pop() that leaves the entry in available.
PoolPopPeek(p) ==
    IF p.available = <<>> THEN [p |-> p, result |-> NoConn, err |-> "ok"]
    ELSE [p |-> p, result |-> p.available[Len(p.available)].c, err |-> "ok"]

\* pop(): [p, result, err]; result is NoConn for None.
PoolPop(p) ==
    IF Len(p.available) = 0 THEN [p |-> p, result |-> NoConn, err |-> "ok"]
    ELSE IF p.available[Len(p.available)].c \in p.all
    THEN [p |-> [p EXCEPT !.available = SubSeq(@, 1, Len(@) - 1)],
          result |-> p.available[Len(p.available)].c, err |-> "ok"]
    ELSE [p |-> [p EXCEPT !.available = SubSeq(@, 1, Len(@) - 1)],
          result |-> NoConn, err |-> "AssertionError"]

\* The for loop of availableGC from entry i on, on st = [all, rm, rel, gc, err]:
\* rm is to_remove, gc the connections whose cacheGC was called.
RECURSIVE GCLoop(_, _, _, _)
GCLoop(av, st, threshhold, i) ==
    IF i > Len(av) THEN st
    ELSE IF av[i].t >= threshhold
    THEN GCLoop(av, [st EXCEPT !.gc = @ \cup {av[i].c}], threshhold, i + 1)
    ELSE IF av[i].c \notin st.all
    THEN [st EXCEPT !.rm = @ \cup {av[i].c}, !.err = "KeyError"]
    ELSE GCLoop(av, [st EXCEPT !.rm = @ \cup {av[i].c},
                               !.all = @ \ {av[i].c},
                               !.rel = Append(@, av[i].c)],
                threshhold, i + 1)

\* The pool p when the loop of availableGC ended in st: [p, rel, gc, err].
Collected(p, st) ==
    [p |-> [p EXCEPT !.all = st.all,
                     !.available = IF st.err = "ok"
                                   THEN FilterOut(@, st.rm) ELSE @],
     rel |-> st.rel, gc |-> st.gc, err |-> st.err]

\* availableGC() of pool p at time t: [p, rel, gc, err].
PoolAvailableGC(p, t) ==
    Collected(p, GCLoop(p.available,
                        [all |-> p.all, rm |-> {}, rel |-> <<>>, gc |-> {},
                         err |-> "ok"],
                        t - p.timeout, 1))

\* A setSize that only stores the size.
PoolSetSizeOnly(p, size, t) ==
    [p |-> [p EXCEPT !.size = size], rel |-> <<>>, err |-> "ok"]

\* setSize(size): [p, rel, err].
PoolSetSize(p, size, t) == PoolReduce([p EXCEPT !.size = size], FALSE, t)

\* setTimeout(timeout): [p, rel, err].
PoolSetTimeout(p, timeout, t) ==
    IF timeout < p.timeout
    THEN PoolReduce([p EXCEPT !.timeout = timeout], FALSE, t)
    ELSE [p |-> [p EXCEPT !.timeout = timeout], rel |-> <<>>, err |-> "ok"]

\* ---------------------------------------------------- KeyedConnectionPool
\* A KeyedConnectionPool is the record [size, timeout, pools], pools a function
\* from the keys that have a sub-pool to ConnectionPool records.
NewKeyed(size, timeout) == [size |-> size, timeout |-> timeout, pools |-> <<>>]

KeysOf(h) == DOMAIN h.pools

\* self.pools[key] = q
WithPool(pools, key, q) ==
    [k \in DOMAIN pools \cup {key} |-> IF k = key THEN q ELSE pools[k]]

\* del self.pools[key]
WithoutPool(pools, key) == [k \in DOMAIN pools \ {key} |-> pools[k]]

\* A deletion of the sub-pool that has no idle connection.
DropIfNoneIdle(pools, key) ==
    IF pools[key].available = <<>> THEN WithoutPool(pools, key) ELSE pools

\* `if not pool.all: del self.pools[key]`
DropIfEmpty(pools, key) ==
    IF pools[key].all = {} THEN WithoutPool(pools, key) ELSE pools

MinKey(K) == CHOOSE k \in K : \A j \in K : k <= j

\* The sub-pool of key, made when there is none.
SubPool(h, key) ==
    IF key \in KeysOf(h) THEN h.pools[key] ELSE NewPool(h.size, h.timeout)

\* h after a call on the sub-pool of key returned r.
InSubPool(h, key, r) == [h EXCEPT !.pools = WithPool(@, key, r.p)]

\* push(c, key) when pool.push(c) returned r.
KeyedPushed(h, key, r) ==
    [h |-> InSubPool(h, key, r), rel |-> r.rel, err |-> r.err, log |-> r.log]

\* push(c, key): [h, rel, err, log]. The sub-pool is stored before pool.push runs.
KeyedPush(h, g, c, key, t) ==
    KeyedPushed(h, key, PoolPush(SubPool(h, key), g, c, t))

\* repush(c, key) when pool.repush(c) returned r.
KeyedRepushed(h, key, r) ==
    [h |-> InSubPool(h, key, r), rel |-> r.rel, err |-> r.err]

\* repush(c, key): [h, rel, err]. self.pools[key] of a missing key raises KeyError.
KeyedRepush(h, g, c, key, t) ==
    IF key \notin KeysOf(h) THEN [h |-> h, rel |-> <<>>, err |-> "KeyError"]
    ELSE KeyedRepushed(h, key, PoolRepush(h.pools[key], g, c, t))

\* pop(key) when pool.pop() returned r.
KeyedPopped(h, key, r) ==
    [h |-> InSubPool(h, key, r), result |-> r.result, err |-> r.err]

\* pop(key): [h, result, err]
KeyedPop(h, key) ==
    IF key \notin KeysOf(h) THEN [h |-> h, result |-> NoConn, err |-> "ok"]
    ELSE KeyedPopped(h, key, PoolPop(h.pools[key]))

\* The connections map(f) calls f on: those of every sub-pool's all.
KeyedAll(h) == UNION {h.pools[k].all : k \in KeysOf(h)}

\* st = [pools, rel, err] after a call on the sub-pool of k returned r.
Visited(st, k, r) ==
    [pools |-> WithPool(st.pools, k, r.p), rel |-> st.rel \o r.rel,
     err |-> r.err]

\* The same, the sub-pool deleted when its all is empty.
VisitedDropping(st, k, r) ==
    [pools |-> IF r.err = "ok" THEN DropIfEmpty(WithPool(st.pools, k, r.p), k)
               ELSE WithPool(st.pools, k, r.p),
     rel |-> st.rel \o r.rel, err |-> r.err]

\* The loop of setSize over the sub-pools K still to visit; st = [pools, rel, err].
RECURSIVE KeyedSetSizeLoop(_, _, _, _)
KeyedSetSizeLoop(st, K, v, t) ==
    IF K = {} \/ st.err # "ok" THEN st
    ELSE KeyedSetSizeLoop(Visited(st, MinKey(K),
                                  PoolSetSize(st.pools[MinKey(K)], v, t)),
                          K \ {MinKey(K)}, v, t)

\* h when the loop of a setter ended in st: [h, rel, err].
KeyedSet(h, st) == [h |-> [h EXCEPT !.pools = st.pools], rel |-> st.rel,
                    err |-> st.err]

\* setSize(v): [h, rel, err]
KeyedSetSize(h, v, t) ==
    KeyedSet([h EXCEPT !.size = v],
             KeyedSetSizeLoop([pools |-> h.pools, rel |-> <<>>, err |-> "ok"],
                              KeysOf(h), v, t))

\* The loop of setTimeout over the sub-pools K still to visit.
RECURSIVE KeyedSetTimeoutLoop(_, _, _, _)
KeyedSetTimeoutLoop(st, K, v, t) ==
    IF K = {} \/ st.err # "ok" THEN st
    ELSE KeyedSetTimeoutLoop(Visited(st, MinKey(K),
                                     PoolSetTimeout(st.pools[MinKey(K)], v, t)),
                             K \ {MinKey(K)}, v, t)

\* setTimeout(v): [h, rel, err]
KeyedSetTimeout(h, v, t) ==
    KeyedSet([h EXCEPT !.timeout = v],
             KeyedSetTimeoutLoop([pools |-> h.pools, rel |-> <<>>,
                                  err |-> "ok"], KeysOf(h), v, t))

\* The loop of _reduce_size over the sub-pools K still to visit.
RECURSIVE KeyedReduceLoop(_, _, _, _)
KeyedReduceLoop(st, K, strictly_less, t) ==
    IF K = {} \/ st.err # "ok" THEN st
    ELSE KeyedReduceLoop(
             VisitedDropping(st, MinKey(K),
                             PoolReduce(st.pools[MinKey(K)], strictly_less, t)),
             K \ {MinKey(K)}, strictly_less, t)

\* _reduce_size(strictly_less): [h, rel, err]
KeyedReduce(h, strictly_less, t) ==
    KeyedSet(h, KeyedReduceLoop([pools |-> h.pools, rel |-> <<>>,
                                 err |-> "ok"], KeysOf(h), strictly_less, t))

\* st = [pools, rel, gc, err] after availableGC on the sub-pool of k returned
\* r, the sub-pool deleted when its all is empty.
VisitedGC(st, k, r) ==
    [pools |-> IF r.err = "ok" THEN DropIfEmpty(WithPool(st.pools, k, r.p), k)
               ELSE WithPool(st.pools, k, r.p),
     rel |-> st.rel \o r.rel, gc |-> st.gc \cup r.gc, err |-> r.err]

\* The loop of availableGC over the sub-pools K still to visit.
RECURSIVE KeyedGCLoop(_, _, _)
KeyedGCLoop(st, K, t) ==
    IF K = {} \/ st.err # "ok" THEN st
    ELSE KeyedGCLoop(VisitedGC(st, MinKey(K),
                               PoolAvailableGC(st.pools[MinKey(K)], t)),
                     K \ {MinKey(K)}, t)

\* h when the loop of availableGC ended in st: [h, rel, gc, err].
KeyedCollected(h, st) ==
    [h |-> [h EXCEPT !.pools = st.pools], rel |-> st.rel, gc |-> st.gc,
     err |-> st.err]

\* availableGC(): [h, rel, gc, err]
KeyedAvailableGC(h, t) ==
    KeyedCollected(h, KeyedGCLoop([pools |-> h.pools, rel |-> <<>>, gc |-> {},
                                   err |-> "ok"], KeysOf(h), t))

\* The pool a connection with c.before = key is idle in, as a list.
IdleOf(p, h, key) ==
    IF key = NoKey THEN p.available
    ELSE IF key \in KeysOf(h) THEN h.pools[key].available ELSE <<>>

\* The connections idle in the live pool or in a sub-pool of the historical one.
AllIdle ==
    ConnsOf(pool.available)
        \cup UNION {ConnsOf(hpool.pools[k].available) : k \in KeysOf(hpool)}

\* ------------------------------------------------------------------ getTID
\* A snapshot selector is [at, before], each a raw transaction id or NoKey for
\* None. Transaction ids and snapshot keys are numbers ordered as the 8-byte
\* strings are; TimeStamp.laterThan(itself) is the next one.
LaterThan(ts) == ts + 1

\* A getTID that takes `at` as the key.
GetTIDAsGiven(at, before) ==
    IF at # NoKey
    THEN IF before # NoKey THEN [key |-> NoKey, err |-> "ValueError"]
         ELSE [key |-> at, err |-> "ok"]
    ELSE [key |-> before, err |-> "ok"]

\* getTID(at, before): [key, err]; key is NoKey for None.
GetTID(at, before) ==
    IF at # NoKey
    THEN IF before # NoKey THEN [key |-> NoKey, err |-> "ValueError"]
         ELSE [key |-> LaterThan(at), err |-> "ok"]
    ELSE [key |-> before, err |-> "ok"]

\* A test that takes every key after the last transaction for the future.
InFutureOfLast(key, last) == key # NoKey /\ key > last

\* The test of DB.open that raises 'cannot open an historical connection in
\* the future.'
InFuture(key, last) ==
    key # NoKey /\ key > last /\ key > GetTID(last, NoKey).key

\* ------------------------------------------------------------- bookkeeping
\* released after the _release_resources calls listed in rel.
AfterRelease(rel) ==
    [c \in Conns |-> released[c] + Cardinality({i \in 1..Len(rel) : rel[i] = c})]

\* The record of a completed operation: its name, the thread, the connection
\* given or returned, the argument (open: the snapshot key), the connections
\* whose _release_resources it called, the exception it raised ("ok": none),
\* the message it logged, and a flag: for a setter, that the new value is
\* smaller than the one it replaced; for push and open, that no connection was
\* idle in the pool; for repush and close, that no idle connection of the pool
\* was warmer than the one returned.
MkEv(op, th, c, arg, rel, err, log, flag) ==
    [op |-> op, th |-> th, c |-> c, arg |-> arg, rel |-> rel, err |-> err,
     log |-> log, flag |-> flag]

Quiet(op) == MkEv(op, NoThread, NoConn, 0, <<>>, "ok", "none", FALSE)

NoEv == Quiet("init")

\* The number of closes at the end of h.
RECURSIVE ClosesAtEnd(_)
ClosesAtEnd(h) ==
    IF h = <<>> \/ h[Len(h)].op # "close" THEN 0
    ELSE 1 + ClosesAtEnd(SubSeq(h, 1, Len(h) - 1))

\* The number of opens at the end of h.
RECURSIVE OpensAtEnd(_)
OpensAtEnd(h) ==
    IF h = <<>> \/ h[Len(h)].op # "open" THEN 0
    ELSE 1 + OpensAtEnd(SubSeq(h, 1, Len(h) - 1))

\* hist after operation e completed when "hist" and "run" are watched: the
\* latest run of closes and the opens after them, as many at most, and the
\* open before the run if there was one; a close is kept with the connection's
\* non-ghost count w and the number n of connections that were idle in its
\* pool before it. Any other operation of the DB and a failed call empty hist.
RunAfter(e) ==
    IF e.op \in {"call", "acquire", "release", "exercise"} THEN hist
    ELSE IF e.op \notin {"open", "close"} \/ e.err # "ok" THEN <<>>
    ELSE LET o == OpensAtEnd(hist)
             r == SubSeq(hist, 1, Len(hist) - o)
         IN  IF e.op = "close"
             THEN LET x == [op |-> "close", c |-> e.c, key |-> e.arg,
                            flag |-> e.flag, w |-> ngc[e.c],
                            n |-> Len(IdleOf(pool, hpool, e.arg))]
                  IN  IF o > 0 THEN <<hist[Len(hist)], x>> ELSE Append(hist, x)
             ELSE LET x == [op |-> "open", c |-> e.c, key |-> e.arg,
                            flag |-> e.flag, w |-> 0, n |-> 0]
                  IN  IF o < ClosesAtEnd(r) THEN Append(hist, x) ELSE <<x>>

\* hist after operation e completed when "hist" alone is watched: the latest
\* successful opens and closes as far as they are c = open(), c.close() and the
\* open after them.
ReopenAfter(e) ==
    IF e.op \notin {"open", "close"} \/ e.err # "ok" THEN hist
    ELSE LET x == [op |-> e.op, c |-> e.c, key |-> e.arg, flag |-> e.flag]
             n == Len(hist)
         IN  IF e.op = "open"
             THEN IF n = 2 THEN Append(hist, x) ELSE <<x>>
             ELSE IF n > 0 /\ hist[n].op = "open" /\ hist[n].c = e.c
             THEN <<hist[n], x>>
             ELSE <<>>

\* The calls on the storage that hist keeps when "storage" is watched.
StorageOps ==
    {"tpc_begin", "undo", "tpc_vote", "tpc_finish", "tpc_abort", "abort"}

\* hist after operation e completed when "storage" is watched: the
\* TransactionalUndo the thread has made last, the calls it has made on the
\* storage since, each with its argument and result, and the end of the
\* invalidate that its tpc_finish started.
StorageAfter(e) ==
    IF e.op = "TransactionalUndo" THEN <<[op |-> e.op, arg |-> e.arg]>>
    ELSE IF e.op \in StorageOps \cup {"invalidate"}
    THEN Append(hist, [op |-> e.op, arg |-> e.arg])
    ELSE hist

\* hist after operation e completed when "closing" is watched: the calls of
\* DB.close, the map of the one that ran, the close of the storage, and the
\* calls of close on connections whose close DB.close has replaced.
ClosingAfter(e) ==
    IF e.op \in {"DB.close", "closeMap", "storage.close", "c.close"}
    THEN Append(hist, [op |-> e.op, arg |-> e.arg])
    ELSE hist

\* hist after operation e completed when "served" is watched: the two latest
\* opens that returned a connection, each with its thread, the connection, the
\* snapshot key and whether the connection was constructed.
ServedAfter(e) ==
    IF e.op # "open" \/ e.err # "ok" THEN hist
    ELSE IF Len(hist) < 2
    THEN Append(hist, [th |-> e.th, c |-> e.c, key |-> e.arg, new |-> e.flag])
    ELSE <<hist[2], [th |-> e.th, c |-> e.c, key |-> e.arg, new |-> e.flag]>>

\* The calls DB.__init__ makes on the storage to find or make the root.
BootOps ==
    {"load", "tpc_begin", "store", "tpc_vote", "tpc_finish", "temp.release"}

\* hist after operation e completed when "boot" is watched: the call of the
\* constructor, its calls on the storage, and its end.
BootAfter(e) ==
    IF e.op \in BootOps \cup {"DB", "__init__"}
    THEN Append(hist, [op |-> e.op, arg |-> e.arg])
    ELSE hist

HistAfter(e) ==
    IF "served" \in watch THEN ServedAfter(e)
    ELSE IF "boot" \in watch THEN BootAfter(e)
    ELSE IF "closing" \in watch THEN ClosingAfter(e)
    ELSE IF "storage" \in watch THEN StorageAfter(e)
    ELSE IF "hist" \notin watch THEN hist
    ELSE IF "run" \in watch THEN RunAfter(e)
    ELSE ReopenAfter(e)

\* ev after operation e.op completed: e when the specification watches e.op.
Note(e) ==
    /\ ev' = IF e.op \in watch THEN e ELSE Quiet("other")
    /\ hist' = HistAfter(e)
    /\ watch' = watch

\* idleChanged after the non-ghost counts became g: set when "idle" is watched
\* and the count of a connection that cacheGC ran on changed.
NoteIdle(g) ==
    idleChanged' = (idleChanged \/ ("idle" \in watch /\ g # ngc))

NoCall == [op |-> "none", key |-> NoKey, c |-> NoConn, arg |-> 0, oids |-> {},
           phase |-> "none", err |-> "ok"]

\* The caller of the pool in SpecPool, and the thread of the specifications
\* with one thread.
Caller == 1

\* The connection a constructor call returns: the first one not yet constructed.
Fresh(c) == c \in Conns \ born /\ \A d \in Conns \ born : c <= d

\* The warmest idle connection's non-ghost count is at most w.
NoneWarmer(av, g, w) == \A i \in 1..Len(av) : g[av[i].c] <= w

\* Everything but the pools and the storage.
InitBare ==
    /\ now = 0
    /\ ngc = [c \in Conns |-> 0]
    /\ cbefore = [c \in Conns |-> NoKey]
    /\ born = {}
    /\ released = [c \in Conns |-> 0]
    /\ invlog = [c \in Conns |-> <<>>]
    /\ held = [t \in Threads |-> {}]
    /\ lock = [owner |-> NoThread, count |-> 0]
    /\ pc = [t \in Threads |-> "idle"]
    /\ call = [t \in Threads |-> NoCall]
    /\ csize = [db |-> 0, hdb |-> 0, of |-> [c \in Conns |-> 0]]
    /\ ev = NoEv
    /\ idleChanged = FALSE
    /\ hist = <<>>

\* The same with a storage that holds the root object.
InitQuiet == InitBare /\ root = TRUE

InitCommon == InitQuiet /\ lastTid = 1

\* -------------------------------------------- SpecPool: a ConnectionPool alone
\* A ConnectionPool(size, timeout) called directly by one caller, who keeps the
\* connections pop() hands out in held[Caller].
InitPool ==
    /\ InitCommon
    /\ \E size \in Sizes, timeout \in Timeouts : pool = NewPool(size, timeout)
    /\ hpool = NewKeyed(0, 0)

\* time passes
Tick ==
    /\ now < MaxTime
    /\ now' = now + 1
    /\ Note(Quiet("tick"))
    /\ UNCHANGED <<pool, hpool, ngc, cbefore, born, released, invlog, held,
                   lock, pc, call, lastTid, idleChanged, csize, root>>

\* The holder of a checked-out connection loads or drops objects in its cache.
Exercise(t, c, w) ==
    /\ c \in held[t]
    /\ ngc[c] # w
    /\ ngc' = [ngc EXCEPT ![c] = w]
    /\ Note(Quiet("exercise"))
    /\ UNCHANGED <<now, pool, hpool, cbefore, born, released, invlog, held,
                   lock, pc, call, lastTid, idleChanged, csize, root>>

\* pool.push(c) of a newly constructed connection c whose cache holds w objects
PPush(c, w) ==
    /\ Fresh(c)
    /\ LET g == [ngc EXCEPT ![c] = w]
           r == PoolPush(pool, g, c, now)
       IN  /\ ngc' = g
           /\ born' = born \cup {c}
           /\ pool' = r.p
           /\ released' = AfterRelease(r.rel)
           /\ Note(MkEv("push", Caller, c, 0, r.rel, r.err, r.log,
                        Len(pool.available) = 0))
    /\ UNCHANGED <<now, hpool, cbefore, invlog, held, lock, pc, call, lastTid,
                   idleChanged, csize, root>>

\* pool.pop()
PPop ==
    /\ LET r == PoolPop(pool)
       IN  /\ pool' = r.p
           /\ held' = IF r.result = NoConn THEN held
                      ELSE [held EXCEPT ![Caller] = @ \cup {r.result}]
           /\ Note(MkEv("pop", Caller, r.result, 0, <<>>, r.err, "none", FALSE))
    /\ UNCHANGED <<now, hpool, ngc, cbefore, born, released, invlog, lock, pc,
                   call, lastTid, idleChanged, csize, root>>

\* pool.repush(c) of a connection pop() handed out
PRepush(c) ==
    /\ c \in held[Caller]
    /\ LET r == PoolRepush(pool, ngc, c, now)
       IN  /\ pool' = r.p
           /\ released' = AfterRelease(r.rel)
           /\ held' = IF r.err = "ok" THEN [held EXCEPT ![Caller] = @ \ {c}]
                      ELSE held
           /\ Note(MkEv("repush", Caller, c, 0, r.rel, r.err, "none",
                        NoneWarmer(pool.available, ngc, ngc[c])))
    /\ UNCHANGED <<now, hpool, ngc, cbefore, born, invlog, lock, pc, call,
                   lastTid, idleChanged, csize, root>>

\* pool.reduce_size()
PReduceSize ==
    /\ LET r == PoolReduce(pool, FALSE, now)
       IN  /\ pool' = r.p
           /\ released' = AfterRelease(r.rel)
           /\ Note(MkEv("reduce_size", Caller, NoConn, 0, r.rel, r.err, "none",
                        FALSE))
    /\ UNCHANGED <<now, hpool, ngc, cbefore, born, invlog, held, lock, pc,
                   call, lastTid, idleChanged, csize, root>>

\* The non-ghost counts after c.cacheGC() ran on the connections of gc and
\* emptied the caches of those in S.
AfterCacheGC(gc, S) == [c \in Conns |-> IF c \in gc \cap S THEN 0 ELSE ngc[c]]

\* pool.availableGC(); cacheGC empties the caches of the survivors in S
PAvailableGC(S) ==
    /\ LET r == PoolAvailableGC(pool, now)
       IN  /\ S \subseteq r.gc
           /\ pool' = r.p
           /\ released' = AfterRelease(r.rel)
           /\ ngc' = AfterCacheGC(r.gc, S)
           /\ NoteIdle(AfterCacheGC(r.gc, S))
           /\ Note(MkEv("availableGC", Caller, NoConn, 0, r.rel, r.err, "none",
                        FALSE))
    /\ UNCHANGED <<now, hpool, cbefore, born, invlog, held, lock, pc, call,
                   lastTid, csize, root>>

\* pool.setSize(size)
PSetSize(size) ==
    /\ LET r == PoolSetSize(pool, size, now)
       IN  /\ pool' = r.p
           /\ released' = AfterRelease(r.rel)
           /\ Note(MkEv("setSize", Caller, NoConn, size, r.rel, r.err, "none",
                        size < pool.size))
    /\ UNCHANGED <<now, hpool, ngc, cbefore, born, invlog, held, lock, pc,
                   call, lastTid, idleChanged, csize, root>>

\* pool.setTimeout(timeout)
PSetTimeout(timeout) ==
    /\ LET r == PoolSetTimeout(pool, timeout, now)
       IN  /\ pool' = r.p
           /\ released' = AfterRelease(r.rel)
           /\ Note(MkEv("setTimeout", Caller, NoConn, timeout, r.rel, r.err,
                        "none", timeout < pool.timeout))
    /\ UNCHANGED <<now, hpool, ngc, cbefore, born, invlog, held, lock, pc,
                   call, lastTid, idleChanged, csize, root>>

NextPool ==
    \/ Tick
    \/ \E c \in Conns, w \in Warmths : Exercise(Caller, c, w)
    \/ \E c \in Conns, w \in Warmths : PPush(c, w)
    \/ PPop
    \/ \E c \in Conns : PRepush(c)
    \/ PReduceSize
    \/ \E S \in SUBSET Conns : PAvailableGC(S)
    \/ \E size \in Sizes : PSetSize(size)
    \/ \E timeout \in Timeouts : PSetTimeout(timeout)

\* No operation watched: the pool's state alone.
InitPoolQuiet == InitPool /\ watch = {}

SpecPool == InitPoolQuiet /\ [][NextPool]_vars

\* idleChanged watched.
InitPoolIdle == InitPool /\ watch = {"idle"}

SpecPoolIdle == InitPoolIdle /\ [][NextPool]_vars

\* setTimeout watched.
InitPoolTimeout == InitPool /\ watch = {"setTimeout"}

SpecPoolTimeout == InitPoolTimeout /\ [][NextPool]_vars

\* push watched.
InitPoolPush == InitPool /\ watch = {"push"}

SpecPoolPush == InitPoolPush /\ [][NextPool]_vars

\* push, repush and setSize watched.
InitPoolDiscard == InitPool /\ watch = {"push", "repush", "setSize"}

SpecPoolDiscard == InitPoolDiscard /\ [][NextPool]_vars

\* pool.repush(c) of a connection that is idle in the pool: a second return
\* with no pop in between
PRepushIdle(c) ==
    /\ c \in ConnsOf(pool.available)
    /\ LET r == PoolRepush(pool, ngc, c, now)
       IN  /\ pool' = r.p
           /\ released' = AfterRelease(r.rel)
           /\ Note(MkEv("repushIdle", Caller, c, 0, r.rel, r.err, "none",
                        NoneWarmer(pool.available, ngc, ngc[c])))
    /\ UNCHANGED <<now, hpool, ngc, cbefore, born, invlog, held, lock, pc,
                   call, lastTid, idleChanged, csize, root>>

InitRepush == InitPool /\ watch = {"repushIdle"}

NextRepush ==
    \/ NextPool
    \/ \E c \in Conns : PRepushIdle(c)

\* The pool called by one caller who may return a connection twice; the
\* second return watched.
SpecRepush == InitRepush /\ [][NextRepush]_vars

\* ------------------------------------ SpecGC: a KeyedConnectionPool alone
\* The snapshot keys the caller of a KeyedConnectionPool uses.
SomeKeys == {1, 2}

\* historical_pool.push(c, key) of a newly constructed connection c whose cache
\* holds w objects
HPush(c, key, w) ==
    /\ Fresh(c)
    /\ LET g == [ngc EXCEPT ![c] = w]
           r == KeyedPush(hpool, g, c, key, now)
       IN  /\ ngc' = g
           /\ born' = born \cup {c}
           /\ cbefore' = [cbefore EXCEPT ![c] = key]
           /\ hpool' = r.h
           /\ released' = AfterRelease(r.rel)
           /\ Note(MkEv("keyedPush", Caller, c, key, r.rel, r.err, r.log,
                        FALSE))
    /\ UNCHANGED <<now, pool, invlog, held, lock, pc, call, lastTid,
                   idleChanged, csize, root>>

\* historical_pool.pop(key)
HPop(key) ==
    /\ LET r == KeyedPop(hpool, key)
       IN  /\ hpool' = r.h
           /\ held' = IF r.result = NoConn THEN held
                      ELSE [held EXCEPT ![Caller] = @ \cup {r.result}]
           /\ Note(MkEv("keyedPop", Caller, r.result, key, <<>>, r.err, "none",
                        FALSE))
    /\ UNCHANGED <<now, pool, ngc, cbefore, born, released, invlog, lock, pc,
                   call, lastTid, idleChanged, csize, root>>

\* historical_pool.repush(c, c.before) of a connection pop(key) handed out
HRepush(c) ==
    /\ c \in held[Caller]
    /\ cbefore[c] # NoKey
    /\ LET r == KeyedRepush(hpool, ngc, c, cbefore[c], now)
       IN  /\ hpool' = r.h
           /\ released' = AfterRelease(r.rel)
           /\ held' = IF r.err = "ok" THEN [held EXCEPT ![Caller] = @ \ {c}]
                      ELSE held
           /\ Note(MkEv("keyedRepush", Caller, c, cbefore[c], r.rel, r.err,
                        "none", FALSE))
    /\ UNCHANGED <<now, pool, ngc, cbefore, born, invlog, lock, pc, call,
                   lastTid, idleChanged, csize, root>>

\* historical_pool.availableGC(); cacheGC empties the cache of one survivor at
\* most. The event keeps the connections cacheGC was called on as its arg.
HAvailableGC ==
    /\ LET r == KeyedAvailableGC(hpool, now)
       IN  \E S \in {{}} \cup {{c} : c \in r.gc} :
           /\ hpool' = r.h
           /\ released' = AfterRelease(r.rel)
           /\ ngc' = AfterCacheGC(r.gc, S)
           /\ NoteIdle(AfterCacheGC(r.gc, S))
           /\ Note(MkEv("keyedAvailableGC", Caller, NoConn, r.gc, r.rel, r.err,
                        "none", FALSE))
    /\ UNCHANGED <<now, pool, cbefore, born, invlog, held, lock, pc, call,
                   lastTid, csize, root>>

\* A KeyedConnectionPool(MaxSize, timeout) called directly by one caller, its
\* timeout none or one unit of time.
InitGC ==
    /\ InitCommon
    /\ pool = NewPool(0, 0)
    /\ \E timeout \in {0, 1} : hpool = NewKeyed(MaxSize, timeout)
    /\ watch = {"keyedAvailableGC"}

NextGC ==
    \/ Tick
    \/ \E c \in Conns, key \in SomeKeys, w \in Warmths : HPush(c, key, w)
    \/ \E key \in SomeKeys : HPop(key)
    \/ \E c \in Conns : HRepush(c)
    \/ HAvailableGC

\* Connections pushed, popped and given back while time passes, and the pool
\* collected; availableGC watched.
SpecGC == InitGC /\ [][NextGC]_vars

\* ------------------- SpecKeyed: the reductions of a KeyedConnectionPool
\* historical_pool.reduce_size()
HReduceSize ==
    /\ LET r == KeyedReduce(hpool, FALSE, now)
       IN  /\ hpool' = r.h
           /\ released' = AfterRelease(r.rel)
           /\ Note(MkEv("keyedReduceSize", Caller, NoConn, 0, r.rel, r.err,
                        "none", FALSE))
    /\ UNCHANGED <<now, pool, ngc, cbefore, born, invlog, held, lock, pc,
                   call, lastTid, idleChanged, csize, root>>

\* historical_pool.setSize(size)
HSetSize(size) ==
    /\ LET r == KeyedSetSize(hpool, size, now)
       IN  /\ hpool' = r.h
           /\ released' = AfterRelease(r.rel)
           /\ Note(MkEv("keyedSetSize", Caller, NoConn, size, r.rel, r.err,
                        "none", size < hpool.size))
    /\ UNCHANGED <<now, pool, ngc, cbefore, born, invlog, held, lock, pc,
                   call, lastTid, idleChanged, csize, root>>

\* historical_pool.setTimeout(timeout)
HSetTimeout(timeout) ==
    /\ LET r == KeyedSetTimeout(hpool, timeout, now)
       IN  /\ hpool' = r.h
           /\ released' = AfterRelease(r.rel)
           /\ Note(MkEv("keyedSetTimeout", Caller, NoConn, timeout, r.rel,
                        r.err, "none", timeout < hpool.timeout))
    /\ UNCHANGED <<now, pool, ngc, cbefore, born, invlog, held, lock, pc,
                   call, lastTid, idleChanged, csize, root>>

\* The operations of a KeyedConnectionPool that discard idle connections.
KeyedReductions ==
    {"keyedReduceSize", "keyedAvailableGC", "keyedSetSize", "keyedSetTimeout"}

InitKeyed ==
    /\ InitCommon
    /\ pool = NewPool(0, 0)
    /\ \E size \in Sizes, timeout \in Timeouts : hpool = NewKeyed(size, timeout)
    /\ watch = KeyedReductions

NextKeyed ==
    \/ Tick
    \/ \E c \in Conns, key \in SomeKeys : HPush(c, key, 0)
    \/ \E key \in SomeKeys : HPop(key)
    \/ \E c \in Conns : HRepush(c)
    \/ HAvailableGC
    \/ HReduceSize
    \/ \E size \in Sizes : HSetSize(size)
    \/ \E timeout \in Timeouts : HSetTimeout(timeout)

\* Connections of two keys pushed, popped and given back while time passes and
\* the pool is reduced, collected and given new limits; the reductions watched.
SpecKeyed == InitKeyed /\ [][NextKeyed]_vars

\* ------------------------------------------------------------------- DB
\* DB(storage, pool_size, pool_timeout, historical_pool_size,
\* historical_timeout): both pools empty, the lock free.
InitDB(pool_size, pool_timeout, historical_pool_size, historical_timeout) ==
    /\ InitCommon
    /\ pool = NewPool(pool_size, pool_timeout)
    /\ hpool = NewKeyed(historical_pool_size, historical_timeout)

\* The connections thread t has got from open and not given back, the one its
\* open is about to return included.
CheckedOut(t) ==
    held[t] \cup (IF pc[t] = "rel" /\ call[t].op = "open" /\ call[t].err = "ok"
                  THEN {call[t].c} ELSE {})

\* An acquire that does not wait for the lock.
AcquireNoWait(t) ==
    /\ pc[t] = "acq"
    /\ lock' = [owner |-> t, count |-> lock.count + 1]
    /\ pc' = [pc EXCEPT ![t] = "body"]
    /\ Note(Quiet("acquire"))
    /\ UNCHANGED <<now, pool, hpool, ngc, cbefore, born, released, invlog,
                   held, call, lastTid, idleChanged, csize, root>>

\* self._a(): acquire the reentrant lock
Acquire(t) ==
    /\ pc[t] = "acq"
    /\ lock.owner \in {NoThread, t}
    /\ lock' = [owner |-> t, count |-> lock.count + 1]
    /\ pc' = [pc EXCEPT ![t] = "body"]
    /\ Note(Quiet("acquire"))
    /\ UNCHANGED <<now, pool, hpool, ngc, cbefore, born, released, invlog,
                   held, call, lastTid, idleChanged, csize, root>>

\* A return that releases the lock only when the try block did not raise.
ReleaseUnlessRaised(t) ==
    /\ pc[t] = "rel"
    /\ lock' = IF call[t].err # "ok" THEN lock
               ELSE [owner |-> IF lock.count = 1 THEN NoThread ELSE lock.owner,
                     count |-> lock.count - 1]
    /\ pc' = [pc EXCEPT ![t] = "idle"]
    /\ held' = [held EXCEPT ![t] = CheckedOut(t)]
    /\ call' = [call EXCEPT ![t] = NoCall]
    /\ Note(Quiet("release"))
    /\ UNCHANGED <<now, pool, hpool, ngc, cbefore, born, released, invlog,
                   lastTid, idleChanged, csize, root>>

\* `finally: self._r()`, then the method returns or raises; open's caller
\* gets the connection.
Release(t) ==
    /\ pc[t] = "rel"
    /\ lock' = [owner |-> IF lock.count = 1 THEN NoThread ELSE lock.owner,
                count |-> lock.count - 1]
    /\ pc' = [pc EXCEPT ![t] = "idle"]
    /\ held' = [held EXCEPT ![t] = CheckedOut(t)]
    /\ call' = [call EXCEPT ![t] = NoCall]
    /\ Note(Quiet("release"))
    /\ UNCHANGED <<now, pool, hpool, ngc, cbefore, born, released, invlog,
                   lastTid, idleChanged, csize, root>>

\* open(at=at, before=before) up to self._a(): the snapshot key, and the test
\* that it is not in the future.
OpenCheck(t, at, before) ==
    /\ pc[t] = "idle"
    /\ LET k == GetTID(at, before)
       IN  IF k.err # "ok" \/ InFuture(k.key, lastTid)
           THEN /\ Note(MkEv("open", t, NoConn, k.key, <<>>, "ValueError",
                             "none", FALSE))
                /\ UNCHANGED <<pc, call>>
           ELSE /\ pc' = [pc EXCEPT ![t] = "acq"]
                /\ call' = [call EXCEPT ![t] = [NoCall EXCEPT !.op = "open",
                                                              !.key = k.key]]
                /\ Note(Quiet("call"))
    /\ UNCHANGED <<now, pool, hpool, ngc, cbefore, born, released, invlog,
                   held, lock, lastTid, idleChanged, csize, root>>

\* `result <- a connection` of open when pop found none, push returned r2 and
\* the second pop r3 = [pool, result, err]: [pool, result, rel, err, log, new].
OpenPushed(r2, r3) ==
    IF r2.err # "ok"
    THEN [pool |-> r3.pool, result |-> NoConn, rel |-> r2.rel, err |-> r2.err,
          log |-> r2.log, new |-> TRUE]
    ELSE [pool |-> r3.pool, result |-> r3.result, rel |-> r2.rel,
          err |-> IF r3.err = "ok" /\ r3.result = NoConn
                  THEN "AssertionError" ELSE r3.err,
          log |-> r2.log, new |-> TRUE]

\* The second pop of a live connection, after push returned r2; not called
\* when push raised.
PopPushed(r2) ==
    IF r2.err # "ok" THEN [pool |-> r2.p, result |-> NoConn, err |-> r2.err]
    ELSE [pool |-> PoolPop(r2.p).p, result |-> PoolPop(r2.p).result,
          err |-> PoolPop(r2.p).err]

\* open for a live connection after the first pop returned r1: when there is
\* none, construct c, push it and pop again.
OpenLivePopped(r1, g, c, t) ==
    IF r1.err # "ok" \/ r1.result # NoConn
    THEN [pool |-> r1.p, result |-> r1.result, rel |-> <<>>,
          err |-> r1.err, log |-> "none", new |-> FALSE]
    ELSE OpenPushed(PoolPush(r1.p, g, c, t), PopPushed(PoolPush(r1.p, g, c, t)))

\* `result <- a connection` of open for a live connection.
OpenLive(p, g, c, t) == OpenLivePopped(PoolPop(p), g, c, t)

\* The second pop of a historical connection, after push returned r2.
KeyedPopPushed(r2, key) ==
    IF r2.err # "ok" THEN [pool |-> r2.h, result |-> NoConn, err |-> r2.err]
    ELSE [pool |-> KeyedPop(r2.h, key).h, result |-> KeyedPop(r2.h, key).result,
          err |-> KeyedPop(r2.h, key).err]

\* The same for a historical connection of snapshot key `key`.
OpenHistoricalPopped(r1, g, c, key, t) ==
    IF r1.err # "ok" \/ r1.result # NoConn
    THEN [pool |-> r1.h, result |-> r1.result, rel |-> <<>>,
          err |-> r1.err, log |-> "none", new |-> FALSE]
    ELSE OpenPushed(KeyedPush(r1.h, g, c, key, t),
                    KeyedPopPushed(KeyedPush(r1.h, g, c, key, t), key))

OpenHistorical(h, g, c, key, t) ==
    OpenHistoricalPopped(KeyedPop(h, key), g, c, key, t)

\* `self.pool.availableGC(); self.historical_pool.availableGC()` of open when
\* they returned r1 and r2: [pool, hpool, rel, gc, err]
OpenCollected(r1, h, r2) ==
    IF r1.err # "ok"
    THEN [pool |-> r1.p, hpool |-> h, rel |-> r1.rel, gc |-> r1.gc,
          err |-> r1.err]
    ELSE [pool |-> r1.p, hpool |-> r2.h, rel |-> r1.rel \o r2.rel,
          gc |-> r1.gc \cup r2.gc, err |-> r2.err]

\* A cleanup that collects the live pool alone.
OpenGCLive(p, h, t) ==
    OpenCollected(PoolAvailableGC(p, t), h,
                  [h |-> h, rel |-> <<>>, gc |-> {}, err |-> "ok"])

OpenGC(p, h, t) ==
    OpenCollected(PoolAvailableGC(p, t), h, KeyedAvailableGC(h, t))

\* The connection of open's try block: r = [pool, result, rel, err, log, new],
\* pool the pool it came from.
OpenResult(t, c) ==
    IF call[t].key # NoKey
    THEN OpenHistorical(hpool, ngc, c, call[t].key, now)
    ELSE OpenLive(pool, ngc, c, now)

\* The pools after the cache cleanup of open's try block, skipped when r
\* raised: [pool, hpool, rel, gc, err].
OpenCleanup(t, r) ==
    IF r.err # "ok"
    THEN [pool |-> IF call[t].key # NoKey THEN pool ELSE r.pool,
          hpool |-> IF call[t].key # NoKey THEN r.pool ELSE hpool,
          rel |-> <<>>, gc |-> {}, err |-> r.err]
    ELSE OpenGC(IF call[t].key # NoKey THEN pool ELSE r.pool,
                IF call[t].key # NoKey THEN r.pool ELSE hpool, now)

\* The cache size self.klass(...) gives the connection of snapshot key `key`:
\* self._historical_cache_size or self._cache_size.
ConstructedSize(key) == IF key # NoKey THEN csize.hdb ELSE csize.db

\* The state after open's try block got r and cleaned up with gc; cacheGC
\* empties the caches of the idle connections in S.
OpenReturn(t, c, S, r, gc) ==
    /\ S \subseteq gc.gc
    /\ pool' = gc.pool
    /\ hpool' = gc.hpool
    /\ born' = IF r.new THEN born \cup {c} ELSE born
    /\ cbefore' = IF r.new THEN [cbefore EXCEPT ![c] = call[t].key] ELSE cbefore
    /\ csize' = IF r.new THEN [csize EXCEPT !.of[c] = ConstructedSize(call[t].key)]
                ELSE csize
    /\ released' = AfterRelease(r.rel \o gc.rel)
    /\ ngc' = AfterCacheGC(gc.gc, S)
    /\ NoteIdle(AfterCacheGC(gc.gc, S))
    /\ call' = [call EXCEPT ![t].c = r.result, ![t].err = gc.err]
    /\ Note(MkEv("open", t, r.result, call[t].key, r.rel \o gc.rel, gc.err,
                 r.log, r.new))

OpenTry(t, c, S, r) == OpenReturn(t, c, S, r, OpenCleanup(t, r))

\* The try block of open, under the lock. c is the connection self.klass(...)
\* constructs when none is idle (NoConn when one is idle).
OpenBody(t, c, S) ==
    /\ pc[t] = "body"
    /\ call[t].op = "open"
    /\ IF IdleOf(pool, hpool, call[t].key) = <<>> THEN Fresh(c) ELSE c = NoConn
    /\ OpenTry(t, c, S, OpenResult(t, c))
    /\ pc' = [pc EXCEPT ![t] = "rel"]
    /\ UNCHANGED <<now, invlog, held, lock, lastTid, root>>

\* connection.close() calls db._returnToPool(connection)
CloseCall(t, c) ==
    /\ pc[t] = "idle"
    /\ c \in held[t]
    /\ pc' = [pc EXCEPT ![t] = "acq"]
    /\ call' = [call EXCEPT ![t] = [NoCall EXCEPT !.op = "close", !.c = c]]
    /\ Note(Quiet("call"))
    /\ UNCHANGED <<now, pool, hpool, ngc, cbefore, born, released, invlog,
                   held, lock, lastTid, idleChanged, csize, root>>

\* The state after the repush of _returnToPool returned r for connection c of
\* snapshot key `key`.
CloseReturn(t, c, key, r) ==
    /\ pool' = IF key # NoKey THEN pool ELSE r.p
    /\ hpool' = IF key # NoKey THEN r.h ELSE hpool
    /\ released' = AfterRelease(r.rel)
    /\ held' = IF r.err = "ok" THEN [held EXCEPT ![t] = @ \ {c}] ELSE held
    /\ call' = [call EXCEPT ![t].err = r.err]
    /\ Note(MkEv("close", t, c, key, r.rel, r.err, "none",
                 NoneWarmer(IdleOf(pool, hpool, key), ngc, ngc[c])))

\* `if connection.before: ... else: ...` of _returnToPool
CloseResult(c, key) ==
    IF key # NoKey THEN KeyedRepush(hpool, ngc, c, key, now)
    ELSE PoolRepush(pool, ngc, c, now)

\* The try block of _returnToPool, under the lock.
CloseBody(t) ==
    /\ pc[t] = "body"
    /\ call[t].op = "close"
    /\ CloseReturn(t, call[t].c, cbefore[call[t].c],
                   CloseResult(call[t].c, cbefore[call[t].c]))
    /\ pc' = [pc EXCEPT ![t] = "rel"]
    /\ UNCHANGED <<now, ngc, cbefore, born, invlog, lock, lastTid, idleChanged,
                   csize,
                   root>>

\* DB.setPoolSize(size), DB.setHistoricalPoolSize(size) and
\* DB.setHistoricalTimeout(timeout) up to self._a()
SetterCall(t, op, v) ==
    /\ pc[t] = "idle"
    /\ pc' = [pc EXCEPT ![t] = "acq"]
    /\ call' = [call EXCEPT ![t] = [NoCall EXCEPT !.op = op, !.arg = v]]
    /\ Note(Quiet("call"))
    /\ UNCHANGED <<now, pool, hpool, ngc, cbefore, born, released, invlog,
                   held, lock, lastTid, idleChanged, csize, root>>

\* The state after the setter op of thread t returned r, `smaller` telling
\* that its argument is smaller than the value it replaced.
SetterReturn(t, op, r, smaller) ==
    /\ released' = AfterRelease(r.rel)
    /\ call' = [call EXCEPT ![t].err = r.err]
    /\ Note(MkEv(op, t, NoConn, call[t].arg, r.rel, r.err, "none", smaller))
    /\ pc' = [pc EXCEPT ![t] = "rel"]

SetPoolSizeReturn(t, r) ==
    /\ pool' = r.p
    /\ SetterReturn(t, "setPoolSize", r, call[t].arg < pool.size)

\* `self.pool.size = size` of setPoolSize, under the lock
SetPoolSizeBody(t) ==
    /\ pc[t] = "body"
    /\ call[t].op = "setPoolSize"
    /\ SetPoolSizeReturn(t, PoolSetSize(pool, call[t].arg, now))
    /\ UNCHANGED <<now, hpool, ngc, cbefore, born, invlog, held, lock, lastTid,
                   idleChanged, csize, root>>

SetHistoricalReturn(t, op, r, smaller) ==
    /\ hpool' = r.h
    /\ SetterReturn(t, op, r, smaller)

\* `self.historical_pool.size = size` of setHistoricalPoolSize, under the lock
SetHistoricalPoolSizeBody(t) ==
    /\ pc[t] = "body"
    /\ call[t].op = "setHistoricalPoolSize"
    /\ SetHistoricalReturn(t, "setHistoricalPoolSize",
                           KeyedSetSize(hpool, call[t].arg, now),
                           call[t].arg < hpool.size)
    /\ UNCHANGED <<now, pool, ngc, cbefore, born, invlog, held, lock, lastTid,
                   idleChanged, csize, root>>

\* `self.historical_pool.timeout = timeout` of setHistoricalTimeout, under the
\* lock
SetHistoricalTimeoutBody(t) ==
    /\ pc[t] = "body"
    /\ call[t].op = "setHistoricalTimeout"
    /\ SetHistoricalReturn(t, "setHistoricalTimeout",
                           KeyedSetTimeout(hpool, call[t].arg, now),
                           call[t].arg < hpool.timeout)
    /\ UNCHANGED <<now, pool, ngc, cbefore, born, invlog, held, lock, lastTid,
                   idleChanged, csize, root>>

\* The steps of a thread that opens and closes connections.
OpenClose(t, sels) ==
    \/ \E sel \in sels : OpenCheck(t, sel[1], sel[2])
    \/ \E c \in Conns \cup {NoConn}, S \in SUBSET Conns : OpenBody(t, c, S)
    \/ \E c \in Conns : CloseCall(t, c)
    \/ CloseBody(t)
    \/ Acquire(t)
    \/ Release(t)

NextOpen == \E t \in Threads : OpenClose(t, {<<NoKey, NoKey>>, <<NoKey, 1>>})

\* The storage commits a transaction: lastTransaction() moves on.
StorageCommit ==
    /\ lastTid < MaxTid
    /\ lastTid' = lastTid + 1
    /\ Note(Quiet("commit"))
    /\ UNCHANGED <<now, pool, hpool, ngc, cbefore, born, released, invlog, held,
                   lock, pc, call, idleChanged, csize, root>>

\* Two threads open and close live connections and historical ones of one key;
\* open watched.
InitOpenEv == InitDB(MaxSize, MaxTime, MaxSize, MaxTime) /\ watch = {"open"}

SpecOpenEv == InitOpenEv /\ [][NextOpen]_vars

NextBefore ==
    \/ OpenClose(Caller, {<<NoKey, k>> : k \in Keys})
    \/ StorageCommit

\* A thread opens historical connections with before=k and closes them while
\* the storage commits; open watched.
SpecBefore == InitOpenEv /\ [][NextBefore]_vars

\* Databases of every pool size, open watched.
InitSized ==
    /\ \E pool_size \in Sizes, historical_pool_size \in Sizes :
           InitDB(pool_size, MaxTime, historical_pool_size, MaxTime)
    /\ watch = {"open"}

SpecSized == InitSized /\ [][NextOpen]_vars

SetPoolSize(t) ==
    \/ \E size \in Sizes : SetterCall(t, "setPoolSize", size)
    \/ SetPoolSizeBody(t)

SetHistoricalPoolSize(t) ==
    \/ \E size \in Sizes : SetterCall(t, "setHistoricalPoolSize", size)
    \/ SetHistoricalPoolSizeBody(t)

NextResize ==
    \/ OpenClose(Caller, {<<NoKey, NoKey>>, <<NoKey, 1>>, <<1, NoKey>>})
    \/ SetPoolSize(Caller)
    \/ SetHistoricalPoolSize(Caller)

\* A thread opens and closes live connections and historical ones of two keys
\* and sets the pool sizes; setHistoricalPoolSize watched.
InitResize ==
    InitDB(MaxSize, MaxTime, MaxSize, MaxTime)
        /\ watch = {"setHistoricalPoolSize"}

SpecResize == InitResize /\ [][NextResize]_vars

\* invalidate(tid, oids, connection) up to self._a() of _connectionMap, called
\* when the storage committed transaction tid; connection is the committing
\* connection of the thread, or NoConn for None.
InvalidateCall(t, connection, oids) ==
    /\ pc[t] = "idle"
    /\ connection \in held[t] \cup {NoConn}
    /\ lastTid < MaxTid
    /\ lastTid' = lastTid + 1
    /\ pc' = [pc EXCEPT ![t] = "acq"]
    /\ call' = [call EXCEPT ![t] = [NoCall EXCEPT !.op = "invalidate",
                                                  !.c = connection,
                                                  !.arg = lastTid + 1,
                                                  !.oids = oids]]
    /\ Note(Quiet("call"))
    /\ UNCHANGED <<now, pool, hpool, ngc, cbefore, born, released, invlog,
                   held, lock, idleChanged, csize, root>>

\* invlog after map(inval) over the connections of S, for thread t's call:
\* inval(c) calls c.invalidate(tid, oids) unless c is connection.
AfterMap(t, S) ==
    [c \in Conns |->
        IF c \in S /\ c # call[t].c
        THEN Append(invlog[c], [tid |-> call[t].arg, oids |-> call[t].oids])
        ELSE invlog[c]]

\* self.pool.map(f) of _connectionMap, under the lock
MapLive(t) ==
    /\ pc[t] = "body"
    /\ call[t].op = "invalidate"
    /\ call[t].phase = "none"
    /\ invlog' = AfterMap(t, pool.all)
    /\ call' = [call EXCEPT ![t].phase = "live"]
    /\ Note(Quiet("map"))
    /\ UNCHANGED <<now, pool, hpool, ngc, cbefore, born, released, held, lock,
                   pc, lastTid, idleChanged, csize, root>>

\* self.historical_pool.map(f) of _connectionMap, and on to `finally`
MapHistorical(t) ==
    /\ pc[t] = "body"
    /\ call[t].op = "invalidate"
    /\ call[t].phase = "live"
    /\ invlog' = AfterMap(t, KeyedAll(hpool))
    /\ call' = [call EXCEPT ![t].phase = "historical"]
    /\ pc' = [pc EXCEPT ![t] = "rel"]
    /\ Note(MkEv("invalidate", t, call[t].c, call[t].arg, <<>>, "ok", "none",
                 FALSE))
    /\ UNCHANGED <<now, pool, hpool, ngc, cbefore, born, released, held, lock,
                   lastTid, idleChanged, csize, root>>

\* The sets of oids invalidate is called with.
OidSets == {{1, 2}}

Invalidate(t) ==
    \/ \E c \in Conns \cup {NoConn}, oids \in OidSets : InvalidateCall(t, c, oids)
    \/ MapLive(t)
    \/ MapHistorical(t)

NextInvalidate ==
    \/ OpenClose(Caller, {<<NoKey, NoKey>>, <<NoKey, 1>>})
    \/ \E t \in Threads : Invalidate(t) \/ Acquire(t) \/ Release(t)

\* A thread opens and closes connections, and it and another thread
\* invalidate; invalidate watched.
InitInvalidate ==
    InitDB(MaxSize, MaxTime, MaxSize, MaxTime) /\ watch = {"invalidate"}

SpecInvalidate == InitInvalidate /\ [][NextInvalidate]_vars

\* ------------------------------------------------------- TransactionalUndo
\* The thread whose transaction undoes earlier transactions.
Undoer == 2

\* The lists of transaction ids to undo.
UndoTids == {<<1>>, <<2, 1>>}

\* What storage.undo(tid, transaction) returns: None, or (tid, oids).
UndoResults ==
    {[some |-> FALSE, oids |-> {}], [some |-> TRUE, oids |-> {1, 2}],
     [some |-> TRUE, oids |-> {2, 3}]}

\* The oids of the (oid, serial) pairs storage.tpc_vote(transaction) returns;
\* none for None.
VoteResults == {{}, {4}}

\* An event of thread t's TransactionalUndo with argument arg.
UndoEv(op, t, arg) == MkEv(op, t, NoConn, arg, <<>>, "ok", "none", FALSE)

\* TransactionalUndo(db, tids), joined to thread t's transaction. The call
\* record of t keeps the resource: arg the tids commit has still to undo, oids
\* its _oids.
UndoJoin(t, tids) ==
    /\ pc[t] = "idle"
    /\ call[t].op = "none"
    /\ call' = [call EXCEPT ![t] = [NoCall EXCEPT !.op = "undo", !.arg = tids,
                                                  !.phase = "new"]]
    /\ Note(UndoEv("TransactionalUndo", t, tids))
    /\ UNCHANGED <<now, pool, hpool, ngc, cbefore, born, released, invlog,
                   held, lock, pc, lastTid, idleChanged, csize, root>>

\* abort(transaction), of a transaction aborted before it began to commit:
\* pass.
UndoAbort(t) ==
    /\ pc[t] = "idle"
    /\ call[t].op = "undo"
    /\ call[t].phase = "new"
    /\ call' = [call EXCEPT ![t] = NoCall]
    /\ Note(UndoEv("abort", t, 0))
    /\ UNCHANGED <<now, pool, hpool, ngc, cbefore, born, released, invlog,
                   held, lock, pc, lastTid, idleChanged, csize, root>>

\* tpc_begin(transaction)
UndoTpcBegin(t) ==
    /\ pc[t] = "idle"
    /\ call[t].op = "undo"
    /\ call[t].phase = "new"
    /\ call' = [call EXCEPT ![t].phase = "begun"]
    /\ Note(UndoEv("tpc_begin", t, 0))
    /\ UNCHANGED <<now, pool, hpool, ngc, cbefore, born, released, invlog,
                   held, lock, pc, lastTid, idleChanged, csize, root>>

\* An update that keeps the oids of the latest result alone.
OidsReplaced(oids, result) ==
    IF result.some THEN result.oids ELSE oids

\* self._oids after `if result: self._oids.update(result[1])`
OidsUpdated(oids, result) ==
    IF result.some THEN oids \cup result.oids ELSE oids

\* One turn of the loop of commit(transaction): storage.undo of the next tid
\* returns result. commit returns after the last.
UndoCommit(t, result) ==
    /\ pc[t] = "idle"
    /\ call[t].op = "undo"
    /\ call[t].phase = "begun"
    /\ call[t].arg # <<>>
    /\ call' = [call EXCEPT ![t].arg = Tail(@),
                            ![t].oids = OidsUpdated(@, result),
                            ![t].phase = IF Tail(call[t].arg) = <<>>
                                         THEN "committed" ELSE "begun"]
    /\ Note(UndoEv("undo", t, [tid |-> Head(call[t].arg), result |-> result]))
    /\ UNCHANGED <<now, pool, hpool, ngc, cbefore, born, released, invlog,
                   held, lock, pc, lastTid, idleChanged, csize, root>>

\* tpc_vote(transaction): storage.tpc_vote returns pairs with the oids voted.
UndoTpcVote(t, voted) ==
    /\ pc[t] = "idle"
    /\ call[t].op = "undo"
    /\ call[t].phase = "committed"
    /\ call' = [call EXCEPT ![t].oids = @ \cup voted, ![t].phase = "voted"]
    /\ Note(UndoEv("tpc_vote", t, voted))
    /\ UNCHANGED <<now, pool, hpool, ngc, cbefore, born, released, invlog,
                   held, lock, pc, lastTid, idleChanged, csize, root>>

\* tpc_finish(transaction): the storage finishes the transaction as the one
\* after its last and calls the callback with that tid, which calls
\* self._db.invalidate(tid, self._oids), here up to self._a() of
\* _connectionMap.
UndoTpcFinish(t) ==
    /\ pc[t] = "idle"
    /\ call[t].op = "undo"
    /\ call[t].phase = "voted"
    /\ lastTid < MaxTid
    /\ lastTid' = lastTid + 1
    /\ pc' = [pc EXCEPT ![t] = "acq"]
    /\ call' = [call EXCEPT ![t] = [NoCall EXCEPT !.op = "invalidate",
                                                  !.arg = lastTid + 1,
                                                  !.oids = call[t].oids]]
    /\ Note(UndoEv("tpc_finish", t,
                   [tid |-> lastTid + 1, oids |-> call[t].oids]))
    /\ UNCHANGED <<now, pool, hpool, ngc, cbefore, born, released, invlog,
                   held, lock, idleChanged, csize, root>>

\* A tpc_abort that invalidates what the transaction has collected.
UndoTpcAbortInvalidating(t) ==
    /\ pc[t] = "idle"
    /\ call[t].op = "undo"
    /\ call[t].phase \in {"begun", "committed", "voted"}
    /\ pc' = [pc EXCEPT ![t] = "acq"]
    /\ call' = [call EXCEPT ![t] = [NoCall EXCEPT !.op = "invalidate",
                                                  !.arg = lastTid,
                                                  !.oids = call[t].oids]]
    /\ Note(UndoEv("tpc_abort", t, 0))
    /\ UNCHANGED <<now, pool, hpool, ngc, cbefore, born, released, invlog,
                   held, lock, lastTid, idleChanged, csize, root>>

\* tpc_abort(transaction), of a transaction that fails after tpc_begin:
\* forwarded to the storage.
UndoTpcAbort(t) ==
    /\ pc[t] = "idle"
    /\ call[t].op = "undo"
    /\ call[t].phase \in {"begun", "committed", "voted"}
    /\ call' = [call EXCEPT ![t] = NoCall]
    /\ Note(UndoEv("tpc_abort", t, 0))
    /\ UNCHANGED <<now, pool, hpool, ngc, cbefore, born, released, invlog,
                   held, lock, pc, lastTid, idleChanged, csize, root>>

\* The steps of a thread whose transactions undo.
Undo(t) ==
    \/ \E tids \in UndoTids : UndoJoin(t, tids)
    \/ UndoAbort(t)
    \/ UndoTpcBegin(t)
    \/ \E result \in UndoResults : UndoCommit(t, result)
    \/ \E voted \in VoteResults : UndoTpcVote(t, voted)
    \/ UndoTpcFinish(t)
    \/ UndoTpcAbort(t)
    \/ MapLive(t)
    \/ MapHistorical(t)
    \/ Acquire(t)
    \/ Release(t)

NextUndo ==
    \/ OpenClose(Caller, {<<NoKey, NoKey>>})
    \/ Undo(Undoer)

\* A database whose storage can finish one transaction more. A thread opens
\* and closes live connections while the transactions of another undo; the
\* storage calls and invalidate watched.
InitUndo ==
    /\ InitQuiet
    /\ lastTid = MaxTid - 1
    /\ pool = NewPool(MaxSize, MaxTime)
    /\ hpool = NewKeyed(MaxSize, MaxTime)
    /\ watch = {"storage", "invalidate"}

SpecUndo == InitUndo /\ [][NextUndo]_vars

NextReopen ==
    \/ OpenClose(Caller, {<<NoKey, NoKey>>, <<NoKey, 1>>})
    \/ \E c \in Conns, w \in Warmths : Exercise(Caller, c, w)

\* A thread opens, uses and closes live connections and historical ones of one
\* key; hist watched.
InitReopen == InitDB(MaxSize, MaxTime, MaxSize, MaxTime) /\ watch = {"hist"}

SpecReopen == InitReopen /\ [][NextReopen]_vars

NextRun ==
    \/ OpenClose(Caller, {<<NoKey, NoKey>>})
    \/ \E c \in Conns, w \in Warmths : Exercise(Caller, c, w)

\* A thread opens, uses and closes the live connections of databases of the
\* two largest pool sizes; hist and run watched.
InitRun ==
    /\ \E pool_size \in {MaxSize - 1, MaxSize} :
           InitDB(pool_size, MaxTime, MaxSize, MaxTime)
    /\ watch = {"hist", "run"}

SpecRun == InitRun /\ [][NextRun]_vars

\* ------------------------------- SpecRaise: _release_resources that raises
\* The while loop of _reduce_size when c._release_resources() raises for the
\* connections of bad: the entry is popped and c removed from all before the
\* call, and the exception ends the loop.
RECURSIVE ReduceLoopRaising(_, _, _, _)
ReduceLoopRaising(st, target, threshhold, bad) ==
    IF Len(st.av) > target \/ (Len(st.av) > 0 /\ st.av[1].t < threshhold)
    THEN IF Len(st.av) = 0 THEN [st EXCEPT !.err = "IndexError"]
         ELSE IF st.av[1].c \notin st.all
         THEN [st EXCEPT !.av = Tail(@), !.err = "KeyError"]
         ELSE IF st.av[1].c \in bad
         THEN [st EXCEPT !.av = Tail(@), !.all = @ \ {st.av[1].c},
                         !.rel = Append(@, st.av[1].c), !.err = "ReleaseError"]
         ELSE ReduceLoopRaising([st EXCEPT !.av = Tail(@),
                                           !.all = @ \ {st.av[1].c},
                                           !.rel = Append(@, st.av[1].c)],
                                target, threshhold, bad)
    ELSE st

\* _reduce_size(strictly_less) of pool p at time t: [p, rel, err].
PoolReduceRaising(p, strictly_less, t, bad) ==
    Reduced(p, ReduceLoopRaising([av |-> p.available, all |-> p.all,
                                  rel |-> <<>>, err |-> "ok"],
                                 ReduceTarget(p.size, strictly_less),
                                 t - p.timeout, bad))

\* The for loop of availableGC when c._release_resources() raises for the
\* connections of bad: c is in to_remove and out of all before the call, and
\* the exception ends the loop.
RECURSIVE GCLoopRaising(_, _, _, _, _)
GCLoopRaising(av, st, threshhold, i, bad) ==
    IF i > Len(av) THEN st
    ELSE IF av[i].t >= threshhold
    THEN GCLoopRaising(av, [st EXCEPT !.gc = @ \cup {av[i].c}], threshhold,
                       i + 1, bad)
    ELSE IF av[i].c \notin st.all
    THEN [st EXCEPT !.rm = @ \cup {av[i].c}, !.err = "KeyError"]
    ELSE IF av[i].c \in bad
    THEN [st EXCEPT !.rm = @ \cup {av[i].c}, !.all = @ \ {av[i].c},
                    !.rel = Append(@, av[i].c), !.err = "ReleaseError"]
    ELSE GCLoopRaising(av, [st EXCEPT !.rm = @ \cup {av[i].c},
                                      !.all = @ \ {av[i].c},
                                      !.rel = Append(@, av[i].c)],
                       threshhold, i + 1, bad)

\* availableGC() of pool p at time t: [p, rel, gc, err]. The assignment to
\* available[:] follows the loop and is not reached when the loop raises.
PoolAvailableGCRaising(p, t, bad) ==
    Collected(p, GCLoopRaising(p.available,
                               [all |-> p.all, rm |-> {}, rel |-> <<>>,
                                gc |-> {}, err |-> "ok"],
                               t - p.timeout, 1, bad))

\* push(c), repush(c), setSize(size) and setTimeout(timeout) with such
\* connections.
PoolPushRaising(p, g, c, t, bad) ==
    IF c \in p.all THEN [p |-> p, rel |-> <<>>, err |-> "AssertionError",
                         log |-> "none"]
    ELSE PushReduced(PoolReduceRaising(p, TRUE, t, bad), g, c, t)

PoolRepushRaising(p, g, c, t, bad) ==
    IF c \notin p.all THEN [p |-> p, rel |-> <<>>, err |-> "AssertionError"]
    ELSE RepushReduced(PoolReduceRaising(p, TRUE, t, bad), g, c, t)

PoolSetSizeRaising(p, size, t, bad) ==
    PoolReduceRaising([p EXCEPT !.size = size], FALSE, t, bad)

PoolSetTimeoutRaising(p, timeout, t, bad) ==
    IF timeout < p.timeout
    THEN PoolReduceRaising([p EXCEPT !.timeout = timeout], FALSE, t, bad)
    ELSE [p |-> [p EXCEPT !.timeout = timeout], rel |-> <<>>, err |-> "ok"]

\* The sets of connections whose _release_resources raises during one call.
BadSets == {{}} \cup {{c} : c \in Conns}

\* The state after the pool operation op returned r = [p, rel, err].
RaisingReturn(op, c, r) ==
    /\ pool' = r.p
    /\ released' = AfterRelease(r.rel)
    /\ Note(MkEv(op, Caller, c, 0, r.rel, r.err, "none", FALSE))

\* pool.push(c) of a newly constructed connection c
RPush(c, bad) ==
    /\ Fresh(c)
    /\ born' = born \cup {c}
    /\ RaisingReturn("push", c, PoolPushRaising(pool, ngc, c, now, bad))
    /\ UNCHANGED <<now, hpool, ngc, cbefore, invlog, held, lock, pc, call,
                   lastTid, idleChanged, csize, root>>

\* pool.repush(c) of a connection pop() handed out
RRepush(c, bad) ==
    /\ c \in held[Caller]
    /\ held' = IF PoolRepushRaising(pool, ngc, c, now, bad).err = "ok"
               THEN [held EXCEPT ![Caller] = @ \ {c}] ELSE held
    /\ RaisingReturn("repush", c, PoolRepushRaising(pool, ngc, c, now, bad))
    /\ UNCHANGED <<now, hpool, ngc, cbefore, born, invlog, lock, pc, call,
                   lastTid, idleChanged, csize, root>>

\* pool.availableGC(), cacheGC leaving the caches as they are
RAvailableGC(bad) ==
    /\ RaisingReturn("availableGC", NoConn,
                     PoolAvailableGCRaising(pool, now, bad))
    /\ UNCHANGED <<now, hpool, ngc, cbefore, born, invlog, held, lock, pc,
                   call, lastTid, idleChanged, csize, root>>

\* pool.setSize(size)
RSetSize(size, bad) ==
    /\ RaisingReturn("setSize", NoConn,
                     PoolSetSizeRaising(pool, size, now, bad))
    /\ UNCHANGED <<now, hpool, ngc, cbefore, born, invlog, held, lock, pc,
                   call, lastTid, idleChanged, csize, root>>

\* pool.setTimeout(timeout)
RSetTimeout(timeout, bad) ==
    /\ RaisingReturn("setTimeout", NoConn,
                     PoolSetTimeoutRaising(pool, timeout, now, bad))
    /\ UNCHANGED <<now, hpool, ngc, cbefore, born, invlog, held, lock, pc,
                   call, lastTid, idleChanged, csize, root>>

NextRaise ==
    \/ Tick
    \/ \E c \in Conns, bad \in BadSets : RPush(c, bad)
    \/ PPop
    \/ \E c \in Conns, bad \in BadSets : RRepush(c, bad)
    \/ \E bad \in BadSets : RAvailableGC(bad)
    \/ \E size \in Sizes, bad \in BadSets : RSetSize(size, bad)
    \/ \E timeout \in Timeouts, bad \in BadSets : RSetTimeout(timeout, bad)

InitRaise == InitPool /\ watch = {"pop", "availableGC"}

\* A ConnectionPool called directly by one caller, with connections whose
\* _release_resources may raise.
SpecRaise == InitRaise /\ [][NextRaise]_vars

\* ------------------------------------------- SpecHeld: connections never closed
\* The caches of newly constructed connections: they hold no object.
EmptyCaches == [c \in ManyConns |-> 0]

\* The connection self.klass(...) returns to a caller that closes none: the
\* first of ManyConns not yet constructed.
FreshOfMany(c) == c \in ManyConns \ born /\ \A d \in ManyConns \ born : c <= d

\* What DB.open does with the live pool for a caller that keeps every
\* connection checked out: pop() finds none, c is constructed and pushed, and
\* pop() hands it out. The event keeps the number of the open as its arg.
OpenHeld(c) ==
    /\ FreshOfMany(c)
    /\ LET r == OpenLive(pool, EmptyCaches, c, now)
       IN  /\ pool' = r.pool
           /\ born' = IF r.new THEN born \cup {c} ELSE born
           /\ released' = AfterRelease(r.rel)
           /\ held' = IF r.err = "ok"
                      THEN [held EXCEPT ![Caller] = @ \cup {r.result}]
                      ELSE held
           /\ Note(MkEv("openHeld", Caller, r.result, Cardinality(born) + 1,
                        r.rel, r.err, r.log, r.new))
    /\ UNCHANGED <<now, hpool, ngc, cbefore, invlog, lock, pc, call, lastTid,
                   idleChanged, csize, root>>

\* Thread t drops connection c without closing it.
Drop(t, c) ==
    /\ pc[t] = "idle"
    /\ c \in held[t]
    /\ held' = [held EXCEPT ![t] = @ \ {c}]
    /\ Note(Quiet("drop"))
    /\ UNCHANGED <<now, pool, hpool, ngc, cbefore, born, released, invlog, lock,
                   pc, call, lastTid, idleChanged, csize, root>>

\* No thread holds c, no call is about c and no available list has it: the
\* `all` sets alone, which are weak, refer to it.
Unreachable(c) ==
    /\ \A t \in Threads : c \notin held[t] /\ (pc[t] # "idle" => call[t].c # c)
    /\ c \notin AllIdle

\* An unreachable connection that stays in the set `all` of its pool.
VanishKept(c) ==
    /\ c \in pool.all \cup KeyedAll(hpool)
    /\ Unreachable(c)
    /\ Note(Quiet("vanish"))
    /\ UNCHANGED <<now, pool, hpool, ngc, cbefore, born, released, invlog,
                   held, lock, pc, call, lastTid, idleChanged, csize, root>>

\* The unreachable connection c vanishes from the weak set `all` of its pool.
Vanish(c) ==
    /\ c \in pool.all \cup KeyedAll(hpool)
    /\ Unreachable(c)
    /\ pool' = [pool EXCEPT !.all = @ \ {c}]
    /\ hpool' = [hpool EXCEPT !.pools =
                     [k \in DOMAIN @ |-> [@[k] EXCEPT !.all = @ \ {c}]]]
    /\ Note(Quiet("vanish"))
    /\ UNCHANGED <<now, ngc, cbefore, born, released, invlog, held, lock, pc,
                   call, lastTid, idleChanged, csize, root>>

InitHeld == InitPool /\ watch = {"openHeld"}

NextHeld ==
    \/ Tick
    \/ \E c \in ManyConns : OpenHeld(c)
    \/ \E c \in ManyConns : Drop(Caller, c)
    \/ \E c \in ManyConns : Vanish(c)

\* A caller opens live connections one after another and closes none; it drops
\* some, which vanish from the pool in time.
SpecHeld == InitHeld /\ [][NextHeld]_vars

\* ------------------------------------- SpecDrop: connections dropped in a DB
NextDrop ==
    \/ OpenClose(Caller, {<<NoKey, NoKey>>, <<NoKey, 1>>})
    \/ \E c \in Conns : Drop(Caller, c)
    \/ \E c \in Conns : Vanish(c)
    \/ Invalidate(Undoer)
    \/ Acquire(Undoer)
    \/ Release(Undoer)

InitDrop ==
    /\ InitQuiet
    /\ lastTid = MaxTid - 1
    /\ pool = NewPool(1, MaxTime)
    /\ hpool = NewKeyed(1, MaxTime)
    /\ watch = {"open"}

\* A thread opens live and historical connections of a DB whose pools have
\* size 1, closes some and drops others, while another thread invalidates;
\* the garbage collector gets to every connection that stays unreachable.
SpecDrop ==
    /\ InitDrop
    /\ [][NextDrop]_vars
    /\ \A c \in Conns : WF_vars(Vanish(c))

\* ------------------------------------------------- SpecCache: setCacheSize
\* The cache sizes setCacheSize is called with; a DB starts with 0.
CacheSizes == 1..MaxCache

\* A map of setsize that reaches no connection.
ResizedNone(of, S, size) == of

\* The cache sizes of the connections after map(setsize) over those of S.
Resized(of, S, size) == [c \in Conns |-> IF c \in S THEN size ELSE of[c]]

\* The try block of setCacheSize, under the lock: `self._cache_size = size`
\* and self.pool.map(setsize).
SetCacheSizeBody(t) ==
    /\ pc[t] = "body"
    /\ call[t].op = "setCacheSize"
    /\ csize' = [csize EXCEPT !.db = call[t].arg,
                              !.of = Resized(csize.of, pool.all, call[t].arg)]
    /\ pc' = [pc EXCEPT ![t] = "rel"]
    /\ Note(MkEv("setCacheSize", t, NoConn, call[t].arg, <<>>, "ok", "none",
                 FALSE))
    /\ UNCHANGED <<now, pool, hpool, ngc, cbefore, born, released, invlog,
                   held, lock, call, lastTid, idleChanged, root>>

SetCacheSize(t) ==
    \/ \E size \in CacheSizes : SetterCall(t, "setCacheSize", size)
    \/ SetCacheSizeBody(t)

NextCache ==
    \/ OpenClose(Caller, {<<NoKey, NoKey>>, <<NoKey, 1>>})
    \/ SetCacheSize(Undoer)
    \/ Acquire(Undoer)
    \/ Release(Undoer)

InitCache ==
    /\ InitDB(MaxSize, MaxTime, MaxSize, MaxTime)
    /\ watch = {"setCacheSize", "open"}

\* A thread opens and closes live and historical connections while another
\* sets the cache size.
SpecCache == InitCache /\ [][NextCache]_vars

\* ------------------------------------------ SpecServed: open(at), open(before)
\* The selectors of the thread that opens with `at` or with neither argument.
AtSelectors == {<<1, NoKey>>, <<NoKey, NoKey>>}

\* The selectors of the thread that opens with `before`, or with both.
BeforeSelectors == {<<NoKey, LaterThan(1)>>, <<1, LaterThan(1)>>}

NextServed ==
    \/ OpenClose(Caller, AtSelectors)
    \/ OpenClose(Undoer, BeforeSelectors)

InitServed ==
    InitDB(MaxSize, MaxTime, MaxSize, MaxTime) /\ watch = {"served", "open"}

\* A thread opens connections with at=x, x the last transaction, or with no
\* argument, another with before=successor(x), and both close them.
SpecServed == InitServed /\ [][NextServed]_vars

\* --------------------------------------------------- SpecBoot: DB.__init__
\* The event of a step of the constructor.
BootEv(op, t, arg) == MkEv(op, t, NoConn, arg, <<>>, "ok", "none", FALSE)

\* DB(storage) up to temp_storage.load: mvcc is 1 when the storage provides
\* IMVCCStorage, and the constructor works on storage.new_instance().
DbConstruct(t, mvcc) ==
    /\ pc[t] = "idle"
    /\ hist = <<>>
    /\ pc' = [pc EXCEPT ![t] = "load"]
    /\ call' = [call EXCEPT ![t] = [NoCall EXCEPT !.op = "__init__",
                                                  !.arg = mvcc]]
    /\ Note(BootEv("DB", t, mvcc))
    /\ UNCHANGED <<now, pool, hpool, ngc, cbefore, born, released, invlog,
                   held, lock, lastTid, csize, root, idleChanged>>

\* A load that finds the root whatever the storage holds.
DbLoadFound(t) ==
    /\ pc[t] = "load"
    /\ pc' = [pc EXCEPT ![t] = "finally"]
    /\ Note(BootEv("load", t, "ok"))
    /\ UNCHANGED <<now, pool, hpool, ngc, cbefore, born, released, invlog,
                   held, lock, call, lastTid, csize, root, idleChanged>>

\* temp_storage.load(z64, ''): it returns, or raises KeyError when the storage
\* holds no root.
DbLoad(t) ==
    /\ pc[t] = "load"
    /\ pc' = [pc EXCEPT ![t] = IF root THEN "finally" ELSE "tpc_begin"]
    /\ Note(BootEv("load", t, IF root THEN "ok" ELSE "KeyError"))
    /\ UNCHANGED <<now, pool, hpool, ngc, cbefore, born, released, invlog,
                   held, lock, call, lastTid, csize, root, idleChanged>>

\* temp_storage.tpc_begin(t), which a storage that cannot be written to
\* refuses with err.
DbTpcBegin(t, err) ==
    /\ pc[t] = "tpc_begin"
    /\ pc' = [pc EXCEPT ![t] = IF err = "ok" THEN "store" ELSE "finally"]
    /\ call' = [call EXCEPT ![t].err = err]
    /\ Note(BootEv("tpc_begin", t, err))
    /\ UNCHANGED <<now, pool, hpool, ngc, cbefore, born, released, invlog,
                   held, lock, lastTid, csize, root, idleChanged>>

\* temp_storage.store(z64, None, file.getvalue(), '', t)
DbStore(t) ==
    /\ pc[t] = "store"
    /\ pc' = [pc EXCEPT ![t] = "tpc_vote"]
    /\ Note(BootEv("store", t, "z64"))
    /\ UNCHANGED <<now, pool, hpool, ngc, cbefore, born, released, invlog,
                   held, lock, call, lastTid, csize, root, idleChanged>>

\* temp_storage.tpc_vote(t)
DbTpcVote(t) ==
    /\ pc[t] = "tpc_vote"
    /\ pc' = [pc EXCEPT ![t] = "tpc_finish"]
    /\ Note(BootEv("tpc_vote", t, "ok"))
    /\ UNCHANGED <<now, pool, hpool, ngc, cbefore, born, released, invlog,
                   held, lock, call, lastTid, csize, root, idleChanged>>

\* temp_storage.tpc_finish(t): the storage commits what was stored.
DbTpcFinish(t) ==
    /\ pc[t] = "tpc_finish"
    /\ root' = TRUE
    /\ lastTid' = lastTid + 1
    /\ pc' = [pc EXCEPT ![t] = "finally"]
    /\ Note(BootEv("tpc_finish", t, "ok"))
    /\ UNCHANGED <<now, pool, hpool, ngc, cbefore, born, released, invlog,
                   held, lock, call, csize, idleChanged>>

\* `finally: if IMVCCStorage.providedBy(temp_storage): temp_storage.release()`
DbRelease(t) ==
    /\ pc[t] = "finally"
    /\ call[t].arg = 1
    /\ call' = [call EXCEPT ![t].arg = 0]
    /\ Note(BootEv("temp.release", t, "ok"))
    /\ UNCHANGED <<now, pool, hpool, ngc, cbefore, born, released, invlog,
                   held, lock, pc, lastTid, csize, root, idleChanged>>

\* The rest of the constructor: it returns the DB, or the exception of the
\* try block goes on to the caller.
DbReturn(t) ==
    /\ pc[t] = "finally"
    /\ call[t].arg = 0
    /\ pc' = [pc EXCEPT ![t] = "idle"]
    /\ call' = [call EXCEPT ![t] = NoCall]
    /\ Note(BootEv("__init__", t, call[t].err))
    /\ UNCHANGED <<now, pool, hpool, ngc, cbefore, born, released, invlog,
                   held, lock, lastTid, csize, root, idleChanged>>

\* The constructor has returned the DB.
Constructed ==
    hist # <<>> /\ hist[Len(hist)].op = "__init__" /\ hist[Len(hist)].arg = "ok"

DbInit(t) ==
    \/ \E mvcc \in {0, 1} : DbConstruct(t, mvcc)
    \/ DbLoad(t)
    \/ \E err \in {"ok", "ReadOnlyError"} : DbTpcBegin(t, err)
    \/ DbStore(t)
    \/ DbTpcVote(t)
    \/ DbTpcFinish(t)
    \/ DbRelease(t)
    \/ DbReturn(t)

\* The steps of a thread that opens and closes connections of the DB it has
\* constructed.
OpenCloseConstructed(t) ==
    \/ \E sel \in {<<NoKey, NoKey>>, <<NoKey, 1>>} :
           Constructed /\ OpenCheck(t, sel[1], sel[2])
    \/ \E c \in Conns \cup {NoConn}, S \in SUBSET Conns : OpenBody(t, c, S)
    \/ \E c \in Conns : CloseCall(t, c)
    \/ CloseBody(t)
    \/ Acquire(t)
    \/ Release(t)

NextBoot == DbInit(Caller) \/ OpenCloseConstructed(Caller)

\* A storage with or without a root, and what the constructor sets up.
InitBoot ==
    /\ InitBare
    /\ root \in BOOLEAN
    /\ lastTid \in 0..1
    /\ root => lastTid = 1
    /\ pool = NewPool(MaxSize, MaxTime)
    /\ hpool = NewKeyed(MaxSize, MaxTime)
    /\ watch = {"boot", "load", "tpc_finish"}

\* A thread constructs a DB on a storage and opens and closes connections.
SpecBoot == InitBoot /\ [][NextBoot]_vars

\* ------------------------------------------------------ SpecDbClose: DB.close
\* The thread that closes the database, one call after another.
Closer == 2

\* The calls of DB.close so far.
DbCloseCalls == {i \in 1..Len(hist) : hist[i].op = "DB.close"}

\* `self.close = noop` has run: the attribute close of the DB is the noop.
DbClosed == DbCloseCalls # {}

\* The connections whose close, afterCompletion and newTransaction the map of
\* DB.close has replaced by the noop.
Neutered ==
    UNION {hist[i].arg : i \in {j \in 1..Len(hist) : hist[j].op = "closeMap"}}

\* A call of db.close that runs DB.close whatever the attribute holds.
DbCloseCallAgain(t) ==
    /\ pc[t] = "idle"
    /\ Cardinality(DbCloseCalls) < MaxCloses
    /\ pc' = [pc EXCEPT ![t] = "acq"]
    /\ call' = [call EXCEPT ![t] = [NoCall EXCEPT !.op = "DB.close"]]
    /\ Note(MkEv("DB.close", t, NoConn, "body", <<>>, "ok", "none", FALSE))
    /\ UNCHANGED <<now, pool, hpool, ngc, cbefore, born, released, invlog,
                   held, lock, lastTid, idleChanged, csize, root>>

\* db.close(): the noop once `self.close = noop` has run; else DB.close, which
\* runs `self.close = noop` and goes on to self._a() of _connectionMap.
DbCloseCall(t) ==
    /\ pc[t] = "idle"
    /\ Cardinality(DbCloseCalls) < MaxCloses
    /\ IF DbClosed
       THEN /\ Note(MkEv("DB.close", t, NoConn, "noop", <<>>, "ok", "none",
                         FALSE))
            /\ UNCHANGED <<pc, call>>
       ELSE /\ pc' = [pc EXCEPT ![t] = "acq"]
            /\ call' = [call EXCEPT ![t] = [NoCall EXCEPT !.op = "DB.close"]]
            /\ Note(MkEv("DB.close", t, NoConn, "body", <<>>, "ok", "none",
                         FALSE))
    /\ UNCHANGED <<now, pool, hpool, ngc, cbefore, born, released, invlog,
                   held, lock, lastTid, idleChanged, csize, root>>

\* released after f(c) of DB.close ran on the connections of S: it aborts
\* c.transaction_manager, replaces c's hooks and calls c._release_resources().
AfterCloseMap(S) ==
    [c \in Conns |-> IF c \in S THEN released[c] + 1 ELSE released[c]]

\* self.pool.map(f) and self.historical_pool.map(f) of _connectionMap, under
\* the lock, and on to `finally`.
DbCloseMap(t) ==
    /\ pc[t] = "body"
    /\ call[t].op = "DB.close"
    /\ released' = AfterCloseMap(pool.all \cup KeyedAll(hpool))
    /\ pc' = [pc EXCEPT ![t] = "rel"]
    /\ Note(MkEv("closeMap", t, NoConn, pool.all \cup KeyedAll(hpool), <<>>,
                 "ok", "none", FALSE))
    /\ UNCHANGED <<now, pool, hpool, ngc, cbefore, born, invlog, held, lock,
                   call, lastTid, idleChanged, csize, root>>

\* `finally: self._r()` of _connectionMap, called by DB.close
DbCloseRelease(t) ==
    /\ pc[t] = "rel"
    /\ call[t].op = "DB.close"
    /\ lock' = [owner |-> IF lock.count = 1 THEN NoThread ELSE lock.owner,
                count |-> lock.count - 1]
    /\ pc' = [pc EXCEPT ![t] = "storage"]
    /\ Note(Quiet("release"))
    /\ UNCHANGED <<now, pool, hpool, ngc, cbefore, born, released, invlog,
                   held, call, lastTid, idleChanged, csize, root>>

\* self.storage.close(); del self.storage
DbStorageClose(t) ==
    /\ pc[t] = "storage"
    /\ call[t].op = "DB.close"
    /\ pc' = [pc EXCEPT ![t] = "idle"]
    /\ call' = [call EXCEPT ![t] = NoCall]
    /\ Note(MkEv("storage.close", t, NoConn, {}, <<>>, "ok", "none", FALSE))
    /\ UNCHANGED <<now, pool, hpool, ngc, cbefore, born, released, invlog,
                   held, lock, lastTid, idleChanged, csize, root>>

\* c.close() of a connection whose close DB.close has replaced: the noop.
NeuteredClose(t, c) ==
    /\ pc[t] = "idle"
    /\ c \in held[t] \cap Neutered
    /\ \A i \in 1..Len(hist) : hist[i].op = "c.close" => hist[i].arg # c
    /\ Note(MkEv("c.close", t, c, c, <<>>, "ok", "none", FALSE))
    /\ UNCHANGED <<now, pool, hpool, ngc, cbefore, born, released, invlog,
                   held, lock, pc, call, lastTid, idleChanged, csize, root>>

\* The steps of a thread that opens connections while the DB has its storage,
\* and closes them.
OpenCloseUntilClosed(t) ==
    \/ \E sel \in {<<NoKey, NoKey>>, <<NoKey, 1>>} :
           ~DbClosed /\ OpenCheck(t, sel[1], sel[2])
    \/ \E c \in Conns \cup {NoConn}, S \in SUBSET Conns : OpenBody(t, c, S)
    \/ \E c \in Conns \ Neutered : CloseCall(t, c)
    \/ \E c \in Conns : NeuteredClose(t, c)
    \/ CloseBody(t)
    \/ Acquire(t)
    \/ Release(t)

NextDbClose ==
    \/ OpenCloseUntilClosed(Caller)
    \/ DbCloseCall(Closer)
    \/ Acquire(Closer)
    \/ DbCloseMap(Closer)
    \/ DbCloseRelease(Closer)
    \/ DbStorageClose(Closer)

InitDbClose ==
    /\ InitDB(MaxSize, MaxTime, MaxSize, MaxTime)
    /\ watch = {"closing", "DB.close", "closeMap"}

\* A thread opens and closes live and historical connections while another
\* closes the DB, again and again.
SpecDbClose == InitDbClose /\ [][NextDbClose]_vars

\* ------------------------------------------------ SpecLock: the DB's lock
NextLock ==
    \/ OpenClose(Caller, {<<NoKey, NoKey>>, <<NoKey, 1>>})
    \/ SetPoolSize(Undoer)
    \/ Invalidate(Undoer)
    \/ Acquire(Undoer)
    \/ Release(Undoer)

\* Databases of every pool size, pool_size 0 included, with which push and
\* repush raise.
InitLock ==
    /\ InitQuiet
    /\ lastTid = MaxTid - 1
    /\ \E pool_size \in Sizes : pool = NewPool(pool_size, MaxTime)
    /\ hpool = NewKeyed(MaxSize, MaxTime)
    /\ watch = {"open", "close"}

\* A thread opens and closes connections while another sets the pool size and
\* invalidates.
SpecLock == InitLock /\ [][NextLock]_vars

\* ------------------------------- SpecDbCloseRaise: DB.close, release raising
\* _connectionMap(f) of DB.close when c._release_resources() raises for b:
\* the maps have called f on the connections of P before they reach b, those of
\* the live pool first; f(b) aborts, replaces the hooks and raises, and the
\* exception leaves map and goes on to `finally`.
DbCloseMapRaising(t, b, P) ==
    /\ pc[t] = "body"
    /\ call[t].op = "DB.close"
    /\ b \in pool.all \cup KeyedAll(hpool)
    /\ P \subseteq (pool.all \cup KeyedAll(hpool)) \ {b}
    /\ IF b \in pool.all THEN P \subseteq pool.all ELSE pool.all \subseteq P
    /\ released' = AfterCloseMap(P \cup {b})
    /\ pc' = [pc EXCEPT ![t] = "raise"]
    /\ call' = [call EXCEPT ![t].err = "ReleaseError"]
    /\ Note(MkEv("closeMap", t, b, P \cup {b}, <<>>, "ReleaseError", "none",
                 FALSE))
    /\ UNCHANGED <<now, pool, hpool, ngc, cbefore, born, invlog, held, lock,
                   lastTid, idleChanged, csize, root>>

\* `finally: self._r()` of _connectionMap with the exception, which goes on
\* through DB.close to its caller: self.storage.close() is not reached.
DbCloseRaise(t) ==
    /\ pc[t] = "raise"
    /\ lock' = [owner |-> IF lock.count = 1 THEN NoThread ELSE lock.owner,
                count |-> lock.count - 1]
    /\ pc' = [pc EXCEPT ![t] = "idle"]
    /\ call' = [call EXCEPT ![t] = NoCall]
    /\ Note(Quiet("release"))
    /\ UNCHANGED <<now, pool, hpool, ngc, cbefore, born, released, invlog,
                   held, lastTid, idleChanged, csize, root>>

NextDbCloseRaise ==
    \/ NextDbClose
    \/ \E b \in Conns, P \in SUBSET Conns : DbCloseMapRaising(Closer, b, P)
    \/ DbCloseRaise(Closer)

\* A thread opens and closes connections while another closes the DB, whose
\* connections may fail to release their resources.
SpecDbCloseRaise == InitDbClose /\ [][NextDbCloseRaise]_vars

\* ------------------------------------- SpecReap: open while entries age
\* A DB of every pair of timeouts.
InitReap ==
    /\ InitCommon
    /\ \E pool_timeout \in Timeouts, historical_timeout \in Timeouts :
           /\ pool = NewPool(MaxSize, pool_timeout)
           /\ hpool = NewKeyed(MaxSize, historical_timeout)
    /\ watch = {"open"}

NextReap ==
    \/ Tick
    \/ OpenClose(Caller, {<<NoKey, NoKey>>, <<NoKey, 1>>, <<NoKey, 2>>})

\* A thread opens and closes live connections and historical ones of two keys
\* while time passes; open watched.
SpecReap == InitReap /\ [][NextReap]_vars

\* ------------------- SpecRetain: historical connections out of the pool
SetHistoricalTimeout(t) ==
    \/ \E timeout \in Timeouts : SetterCall(t, "setHistoricalTimeout", timeout)
    \/ SetHistoricalTimeoutBody(t)

InitRetain ==
    InitDB(MaxSize, MaxTime, MaxSize, MaxTime) /\ watch = {"close"}

NextRetain ==
    \/ Tick
    \/ OpenClose(Caller, {<<NoKey, 1>>, <<NoKey, 2>>})
    \/ SetHistoricalPoolSize(Caller)
    \/ SetHistoricalTimeout(Caller)
    \/ HReduceSize

\* A thread opens and closes historical connections of two keys and sets the
\* historical pool's size and timeout while time passes and the historical
\* pool is reduced; close watched.
SpecRetain == InitRetain /\ [][NextRetain]_vars

\* ------------------------------------------------------------------ claims
NoDuplicates(av) == \A i, j \in 1..Len(av) : i # j => av[i].c # av[j].c

\* Non-decreasing in non-ghost count from front to back.
WarmthSorted(av) ==
    \A i, j \in 1..Len(av) : i < j => ngc[av[i].c] <= ngc[av[j].c]

\* Age of an idle entry.
Age(e) == now - e.t

\* C1: after every call of push, pop, repush, reduce_size and availableGC on a
\* ConnectionPool (setSize and setTimeout too), every connection of available
\* is in all, none is in available twice, and there are at most size of them.
C1_PoolInvariant ==
    /\ ConnsOf(pool.available) \subseteq pool.all
    /\ NoDuplicates(pool.available)
    /\ Len(pool.available) <= pool.size

\* C1's case: the pool is full after a reduction released a connection.
C1_Witness ==
    /\ pool.size >= 1
    /\ Len(pool.available) = pool.size
    /\ \E c \in Conns : released[c] = 1

\* C8: while no connection's non-ghost count has changed while it was idle,
\* available is non-decreasing in non-ghost count from front to back.
C8_WarmthOrder == ~idleChanged => WarmthSorted(pool.available)

\* C8's case: a colder connection enqueued later stands in front of a warmer one.
C8_Witness ==
    /\ ~idleChanged
    /\ Len(pool.available) >= 2
    /\ ngc[pool.available[1].c] < ngc[pool.available[2].c]
    /\ pool.available[1].t > pool.available[2].t

\* C9 as claimed: when setTimeout(t') with t' smaller than the previous timeout
\* returns, no idle entry is older than t'.
C9_SetTimeoutReapsAll ==
    (ev.op = "setTimeout" /\ ev.flag /\ ev.err = "ok")
        => \A i \in 1..Len(pool.available) :
               Age(pool.available[i]) <= pool.timeout

\* C2: no connection is checked out of open by two threads at once, and a
\* checked-out connection is in no available list, so that no other open can
\* return it before _returnToPool gave it back.
C2_NoDoubleCheckout ==
    /\ \A t1, t2 \in Threads :
           t1 # t2 => CheckedOut(t1) \cap CheckedOut(t2) = {}
    /\ \A t \in Threads : CheckedOut(t) \cap AllIdle = {}

\* C2's case: an open has just handed a thread a connection that had been given
\* back before, while the other thread holds a connection too and is about to
\* be handed or to give back one.
C2_Witness ==
    /\ ev.op = "open" /\ ev.err = "ok" /\ ~ev.flag
    /\ ev.c \in CheckedOut(ev.th)
    /\ \E t \in Threads \ {ev.th} : held[t] # {} /\ pc[t] = "acq"

\* Thread t leaves the try block of its open in this step.
OpenReturns(t) == pc[t] = "body" /\ call[t].op = "open" /\ pc'[t] = "rel"

\* C4 as claimed: open(before=k) passes the future check when k is the last
\* transaction and raises ValueError for every k greater than it.
C4_FutureAfterLast ==
    ev.op = "open" =>
        /\ ev.arg = lastTid => ev.err # "ValueError"
        /\ ev.arg > lastTid => ev.err = "ValueError"

\* C4, amended: open(before=k) raises ValueError exactly when k is greater than
\* the successor of the last transaction, and then it leaves the pools and the
\* set of constructed connections as they were; for every k up to the
\* successor, the last transaction included, it passes the check.
C4_FutureAfterSuccessor ==
    /\ [](ev.op = "open" =>
             /\ ev.err = "ValueError" => ev.arg > LaterThan(lastTid)
             /\ ev.err # "ValueError" => ev.arg <= LaterThan(lastTid))
    /\ [][(ev'.op = "open" /\ ev'.err = "ValueError")
              => UNCHANGED <<pool, hpool, born, held, pc>>]_vars

\* C4's case: an open of the successor of the last transaction has returned a
\* connection, and opens of the last transaction's key too.
C4_Witness ==
    /\ ev.op = "open" /\ ev.err = "ok"
    /\ ev.arg = LaterThan(lastTid)
    /\ lastTid \in KeysOf(hpool)

\* C6 as claimed: an open that finds no idle connection for its key constructs
\* a connection, pushes it to the key's pool and returns it.
C6_OpenCreates ==
    (ev.op = "open" /\ ev.flag)
        => /\ ev.err = "ok"
           /\ ev.c \in born
           /\ cbefore[ev.c] = ev.arg
           /\ IF ev.arg = NoKey THEN ev.c \in pool.all
              ELSE ev.c \in KeyedAll(hpool)

\* The last two calls in hist are c = open(sel) and c.close(), thread t's open
\* asks for the same key, and c is idle and no older than the pool's timeout.
ReopenCase(t) ==
    /\ Len(hist) >= 2
    /\ LET o == hist[Len(hist) - 1]
           cl == hist[Len(hist)]
           av == IdleOf(pool, hpool, cl.key)
           timeout == IF cl.key = NoKey THEN pool.timeout ELSE hpool.timeout
       IN  /\ o.op = "open" /\ cl.op = "close" /\ o.c = cl.c
           /\ call[t].key = cl.key
           /\ \E i \in 1..Len(av) : av[i].c = cl.c /\ Age(av[i]) <= timeout

\* C5 as claimed: after c = open(sel); c.close(), the next open(sel) returns c
\* when c is still idle and within the timeout.
C5_ReopenSame ==
    [][\A t \in Threads :
          (OpenReturns(t) /\ ReopenCase(t)) => call'[t].c = hist[Len(hist)].c]_vars

\* C5, amended: it does when moreover no connection idle in that pool had a
\* larger non-ghost count than c when c was closed.
C5_ReopenWarmest ==
    [][\A t \in Threads :
          (OpenReturns(t) /\ ReopenCase(t) /\ hist[Len(hist)].flag)
              => call'[t].c = hist[Len(hist)].c]_vars

\* C5's case: c was opened, closed beside another idle connection not warmer
\* than it, and the next open of the same key returned it.
C5_Witness ==
    /\ Len(hist) >= 3
    /\ LET n == Len(hist)
       IN  /\ hist[n - 2].op = "open" /\ hist[n - 1].op = "close"
           /\ hist[n].op = "open"
           /\ hist[n - 2].c = hist[n - 1].c /\ hist[n].c = hist[n - 1].c
           /\ hist[n].key = hist[n - 1].key
           /\ hist[n - 1].flag
           /\ Len(IdleOf(pool, hpool, hist[n].key)) >= 1

\* The last 2k calls in hist are k closes and then k opens of live connections,
\* the call before them, if there was one, an open.
IsRun(k) ==
    /\ Len(hist) >= 2 * k
    /\ Len(hist) > 2 * k => hist[Len(hist) - 2 * k].op = "open"
    /\ \A i \in 1..k :
           /\ hist[Len(hist) - 2 * k + i].op = "close"
           /\ hist[Len(hist) - 2 * k + i].key = NoKey
           /\ hist[Len(hist) - k + i].op = "open"
           /\ hist[Len(hist) - k + i].key = NoKey

\* The i-th close and the i-th open of the run of k.
ClosedAt(k, i) == hist[Len(hist) - 2 * k + i]

OpenedAt(k, i) == hist[Len(hist) - k + i]

\* The closed connections had pairwise distinct non-ghost counts.
DistinctCounts(k) ==
    \A i, j \in 1..k : i # j => ClosedAt(k, i).w # ClosedAt(k, j).w

\* The opens returned the closed connections, the warmer the earlier.
WarmestFirst(k) ==
    /\ \A i \in 1..k : \E j \in 1..k : OpenedAt(k, i).c = ClosedAt(k, j).c
    /\ \A i, j \in 1..k, a, b \in 1..k :
           (i < j /\ OpenedAt(k, i).c = ClosedAt(k, a).c
                  /\ OpenedAt(k, j).c = ClosedAt(k, b).c)
               => ClosedAt(k, a).w > ClosedAt(k, b).w

\* C7 as claimed: k <= pool_size live connections of pairwise distinct
\* non-ghost counts closed in a row are returned by the next k opens in
\* strictly decreasing order of non-ghost count.
C7_WarmestFirst ==
    \A k \in 1..MaxSize :
        (IsRun(k) /\ k <= pool.size /\ DistinctCounts(k)) => WarmestFirst(k)

\* C7, amended: they are when no connection was idle in the live pool at the
\* first of the k closes.
C7_WarmestFirstFromEmpty ==
    \A k \in 1..MaxSize :
        (IsRun(k) /\ k <= pool.size /\ DistinctCounts(k)
                  /\ ClosedAt(k, 1).n = 0)
            => WarmestFirst(k)

\* C7's case: two connections, the colder closed last, were returned again, the
\* warmer first.
C7_Witness ==
    /\ IsRun(2) /\ DistinctCounts(2) /\ ClosedAt(2, 1).n = 0
    /\ ClosedAt(2, 1).w > ClosedAt(2, 2).w
    /\ OpenedAt(2, 1).c = ClosedAt(2, 1).c
    /\ OpenedAt(2, 2).c = ClosedAt(2, 2).c

\* The number of invalidate(tid, ...) calls connection c received.
Received(c, tid) ==
    Cardinality({i \in 1..Len(invlog[c]) : invlog[c][i].tid = tid})

\* Connections c and d received the invalidations both received in one order.
SameOrder(c, d) ==
    \A i, j \in 1..Len(invlog[c]) :
        i < j => \A k, l \in 1..Len(invlog[d]) :
                     (invlog[c][i].tid = invlog[d][k].tid
                         /\ invlog[c][j].tid = invlog[d][l].tid) => k < l

\* C3: when invalidate(tid, oids, committer) has visited both pools, every
\* connection of the live pool's all and of every sub-pool's all but committer
\* has received invalidate(tid, oids) exactly once and committer not at all;
\* and at all times any two connections have received the invalidations that
\* both received in the same order.
C3_InvalidateFanOut ==
    /\ ev.op = "invalidate" =>
           \A c \in pool.all \cup KeyedAll(hpool) :
               IF c = ev.c THEN Received(c, ev.arg) = 0
               ELSE /\ Received(c, ev.arg) = 1
                    /\ \A i \in 1..Len(invlog[c]) :
                           invlog[c][i].tid = ev.arg
                               => invlog[c][i].oids = call[ev.th].oids
    /\ \A c, d \in Conns : c < d => SameOrder(c, d)

\* C3's case: the second of two invalidations has reached a connection that
\* received the first, and skipped the committing one.
C3_Witness ==
    /\ ev.op = "invalidate" /\ ev.c # NoConn
    /\ Received(ev.c, ev.arg) = 0
    /\ \E d \in (pool.all \cup KeyedAll(hpool)) \ {ev.c} :
           Received(d, ev.arg) = 1 /\ Len(invlog[d]) >= 2

\* Thread t leaves the try block of setter op in this step.
SetterReturns(t, op) == pc[t] = "body" /\ call[t].op = op /\ pc'[t] = "rel"

\* Every connection that was idle and is not any more is in no all set and has
\* had _release_resources called once in this step.
RemovedReleased ==
    \A c \in AllIdle \ AllIdle' :
        /\ c \notin pool'.all \cup KeyedAll(hpool')
        /\ released'[c] = released[c] + 1

\* C10: when setPoolSize(n') or setHistoricalPoolSize(n') with n' smaller than
\* the size before returns, the live pool, or every sub-pool of the historical
\* pool, has at most n' idle connections, and every idle connection removed
\* is out of all and has had _release_resources called.
C10_SetSizeReduces ==
    [][\A t \in Threads :
          /\ (SetterReturns(t, "setPoolSize") /\ call[t].arg < pool.size)
                 => /\ Len(pool'.available) <= call[t].arg
                    /\ RemovedReleased
          /\ (SetterReturns(t, "setHistoricalPoolSize")
                  /\ call[t].arg < hpool.size)
                 => /\ \A k \in KeysOf(hpool') :
                           Len(hpool'.pools[k].available) <= call[t].arg
                    /\ RemovedReleased]_vars

\* C10's case: setHistoricalPoolSize has just removed an idle connection, after
\* setPoolSize made the live pool smaller and an idle live connection went.
C10_Witness ==
    /\ ev.op = "setHistoricalPoolSize" /\ ev.flag /\ ev.err = "ok"
    /\ ev.rel # <<>>
    /\ pool.size < MaxSize
    /\ \E c \in born \ pool.all : cbefore[c] = NoKey /\ released[c] = 1

\* The connections of the entries of av enqueued more than timeout ago.
Stale(av, timeout) == {av[i].c : i \in {j \in 1..Len(av) : now - av[j].t > timeout}}

\* The entries of av enqueued no more than timeout ago, in the order of av.
RECURSIVE Surviving(_, _)
Surviving(av, timeout) ==
    IF av = <<>> THEN <<>>
    ELSE IF now - Head(av).t > timeout THEN Surviving(Tail(av), timeout)
    ELSE <<Head(av)>> \o Surviving(Tail(av), timeout)

\* The idle connections a pool or sub-pool had in av are collected in this
\* step, which leaves the idle entries av2 and the tracked connections all2 of
\* all: the stale ones leave both and are released once, the others stay where
\* they are and have cacheGC called.
CollectedExactly(av, all, timeout, av2, all2) ==
    /\ av2 = Surviving(av, timeout)
    /\ all2 = all \ Stale(av, timeout)
    /\ \A c \in ConnsOf(av) :
           /\ released'[c] = released[c] + (IF c \in Stale(av, timeout) THEN 1 ELSE 0)
           /\ c \in ev'.arg <=> c \notin Stale(av, timeout)

\* C11: availableGC of a KeyedConnectionPool, which is availableGC of the
\* ConnectionPool of every key, removes from available and from all exactly
\* the idle entries enqueued more than timeout ago, calls _release_resources
\* once on each of them and on no other connection, and calls cacheGC on every
\* surviving entry and leaves it in its place; it raises nothing.
C11_AvailableGCExact ==
    [][ev'.op = "keyedAvailableGC" =>
          /\ ev'.err = "ok"
          /\ \A k \in KeysOf(hpool) :
                 CollectedExactly(
                     hpool.pools[k].available, hpool.pools[k].all,
                     hpool.pools[k].timeout, IdleOf(pool', hpool', k),
                     IF k \in KeysOf(hpool') THEN hpool'.pools[k].all ELSE {})
          /\ KeysOf(hpool') \subseteq KeysOf(hpool)
          /\ \A c \in Conns \ AllIdle :
                 released'[c] = released[c] /\ c \notin ev'.arg]_vars

\* C11's case: availableGC of the historical pool has just removed and released
\* an entry enqueued more than timeout ago and left one that was enqueued
\* exactly timeout ago, on which it called cacheGC.
C11_Witness ==
    /\ ev.op = "keyedAvailableGC"
    /\ \E c \in Conns :
           /\ ev.rel = <<c>>
           /\ released[c] = 1
           /\ c \notin KeyedAll(hpool)
    /\ \E k \in KeysOf(hpool) :
           /\ Len(hpool.pools[k].available) = 1
           /\ Age(hpool.pools[k].available[1]) = hpool.timeout
           /\ hpool.pools[k].available[1].c \in ev.arg

\* C12 as claimed: push(c) of a connection the pool does not know raises
\* nothing and leaves c in all and in available, whatever the size of the pool
\* and the number of connections it tracks.
C12_PushNeverFails ==
    ev.op = "push" =>
        /\ ev.err = "ok"
        /\ ev.c \in pool.all
        /\ ev.c \in ConnsOf(pool.available)

\* The caller has dropped no connection: it holds every one constructed, and
\* the pool tracks them all.
AllHeld == held[Caller] = born /\ pool.all = born

\* C13 as claimed: with pool_size=2, when connections are pushed one after
\* another and each is popped and held, the first two pushes log nothing, the
\* third logs a warning and the fourth a critical problem; none fails.
C13_FourthCritical ==
    (ev.op = "openHeld" /\ pool.size = 2 /\ AllHeld) =>
        /\ ev.err = "ok"
        /\ ev.arg <= 2 => ev.log = "none"
        /\ ev.arg = 3 => ev.log = "warn"
        /\ ev.arg = 4 => ev.log = "critical"

\* C13, amended: with pool_size=2 the first two pushes log nothing, the third
\* and the fourth log a warning each and the fifth logs a critical problem;
\* for every pool_size of one or more, the push that brings the number of
\* tracked connections to n logs nothing when n <= pool_size, a warning when
\* pool_size < n <= 2 * pool_size, and a critical problem when
\* n > 2 * pool_size. None of the pushes fails.
C13_CriticalAboveTwice ==
    (ev.op = "openHeld" /\ pool.size >= 1 /\ AllHeld) =>
        /\ ev.err = "ok"
        /\ ev.arg = Cardinality(pool.all)
        /\ ev.arg <= pool.size => ev.log = "none"
        /\ (pool.size < ev.arg /\ ev.arg <= 2 * pool.size) => ev.log = "warn"
        /\ ev.arg > 2 * pool.size => ev.log = "critical"

\* C13's case: the fifth connection in a row has just been pushed to a pool of
\* size 2 and handed out, all five being held, and push logged a critical
\* problem.
C13_Witness ==
    /\ ev.op = "openHeld" /\ pool.size = 2 /\ AllHeld
    /\ ev.arg = 5
    /\ ev.log = "critical"
    /\ ev.c \in held[Caller]

\* The oids the storage.undo calls of hist returned, for a list of n tids.
UndoneOids(n) ==
    UNION {IF hist[j].arg.result.some THEN hist[j].arg.result.oids ELSE {} :
               j \in {i \in 3..(n + 2) : i <= Len(hist)}}

\* C14: for a TransactionalUndo over tids driven through tpc_begin, commit,
\* tpc_vote and tpc_finish, the i-th storage.undo call is the one call for the
\* i-th tid of the list, all are made before tpc_vote, the finish callback
\* calls DB.invalidate once, with the tid the storage assigned and the union
\* of the oids that the undo calls and tpc_vote returned, and every connection
\* the pools track receives that invalidation once, with these oids.
C14_UndoInvalidatesUnion ==
    hist # <<>> =>
        /\ \A i \in 1..Len(hist) :
               /\ hist[i].op = "undo" =>
                      /\ i \in 3..(Len(hist[1].arg) + 2)
                      /\ hist[i].arg.tid = hist[1].arg[i - 2]
                      /\ hist[i - 1].op \in {"tpc_begin", "undo"}
               /\ hist[i].op = "tpc_vote" =>
                      i = Len(hist[1].arg) + 3 /\ hist[i - 1].op = "undo"
               /\ hist[i].op = "tpc_finish" =>
                      /\ i = Len(hist[1].arg) + 4
                      /\ hist[i - 1].op = "tpc_vote"
                      /\ hist[i].arg.tid = lastTid
                      /\ hist[i].arg.oids =
                             UndoneOids(Len(hist[1].arg)) \cup hist[i - 1].arg
               /\ hist[i].op = "invalidate" =>
                      /\ i = Len(hist[1].arg) + 5
                      /\ hist[i - 1].op = "tpc_finish"
                      /\ hist[i].arg = hist[i - 1].arg.tid
        /\ (ev.op = "invalidate" /\ ev.th = Undoer) =>
               \A c \in pool.all \cup KeyedAll(hpool) :
                   /\ Received(c, ev.arg) = 1
                   /\ \A k \in 1..Len(invlog[c]) :
                          invlog[c][k].tid = ev.arg =>
                              invlog[c][k].oids = hist[Len(hist) - 1].arg.oids

\* C14's case: the undo of two transactions has finished; the two
\* storage.undo calls returned different oids and tpc_vote one more, and a
\* connection has received the invalidation of them all.
C14_Witness ==
    /\ ev.op = "invalidate" /\ ev.th = Undoer
    /\ Len(hist) = 7
    /\ hist[1].arg = <<2, 1>>
    /\ hist[3].arg.result.oids = {1, 2}
    /\ hist[4].arg.result.oids = {2, 3}
    /\ hist[5].arg = {4}
    /\ \E c \in pool.all :
           /\ Received(c, ev.arg) = 1
           /\ invlog[c][Len(invlog[c])].oids = {1, 2, 3, 4}

\* The transaction of the TransactionalUndo of hist was aborted.
Aborted == hist # <<>> /\ hist[Len(hist)].op \in {"abort", "tpc_abort"}

\* C15: when the transaction of a TransactionalUndo ends with abort, the
\* storage is not called at all; when it ends with tpc_abort, tpc_abort is
\* the last call on the storage, tpc_finish is not called and DB.invalidate is
\* not called; the step that aborts leaves the thread in no call and delivers
\* nothing, and every invalidation a connection has received is that of a
\* transaction the storage finished.
C15_AbortNeverInvalidates ==
    /\ [](/\ Aborted =>
              /\ \A i \in 1..Len(hist) :
                     hist[i].op \notin {"tpc_finish", "invalidate"}
              /\ \A i \in 1..(Len(hist) - 1) :
                     hist[i].op \notin {"abort", "tpc_abort"}
              /\ hist[Len(hist)].op = "abort" => Len(hist) = 2
              /\ pc[Undoer] = "idle" /\ call[Undoer] = NoCall
          /\ \A c \in Conns :
                 /\ Len(invlog[c]) <= lastTid - (MaxTid - 1)
                 /\ \A k \in 1..Len(invlog[c]) :
                        /\ invlog[c][k].tid > MaxTid - 1
                        /\ invlog[c][k].tid <= lastTid)
    /\ [][(hist' # hist /\ Aborted') =>
              invlog' = invlog /\ lastTid' = lastTid]_vars

\* C15's case: the undo of two transactions was aborted after tpc_vote, with
\* oids collected, while a connection is tracked by the live pool; it has
\* received nothing.
C15_Witness ==
    /\ Len(hist) = 6
    /\ hist[5].op = "tpc_vote"
    /\ hist[6].op = "tpc_abort"
    /\ hist[3].arg.result.some
    /\ \E c \in pool.all : invlog[c] = <<>>

\* The entries of hist of operation op.
HistOf(op) == {i \in 1..Len(hist) : hist[i].op = op}

\* C16: the first call of db.close() runs DB.close and every later one is the
\* noop, which changes nothing; the map of DB.close runs once, on every
\* connection the live pool and the historical pool track, idle or checked
\* out, each of which gets its transaction manager aborted, its hooks replaced
\* and its resources released once; the storage is closed once, after the map.
C16_CloseIdempotent ==
    /\ [](/\ \A i \in DbCloseCalls :
                 ((hist[i].arg = "body") <=> (\A j \in DbCloseCalls : i <= j))
          /\ Cardinality(HistOf("closeMap")) <= 1
          /\ Cardinality(HistOf("storage.close")) <= 1
          /\ \A m \in HistOf("closeMap"), n \in HistOf("storage.close") : m < n
          /\ (DbClosed /\ pc[Closer] = "idle") =>
                 /\ HistOf("closeMap") # {}
                 /\ HistOf("storage.close") # {})
    /\ [][(ev'.op = "DB.close" /\ ev'.arg = "noop") =>
              UNCHANGED <<pool, hpool, ngc, cbefore, born, released, invlog,
                          held, lock, pc, call>>]_vars
    /\ [][ev'.op = "closeMap" =>
              /\ ev'.arg = pool.all \cup KeyedAll(hpool)
              /\ \A c \in Conns :
                     released'[c] =
                         released[c] + (IF c \in ev'.arg THEN 1 ELSE 0)
              /\ UNCHANGED <<pool, hpool>>]_vars

\* C16's case: DB.close ran while a connection was checked out and another,
\* of the other pool, was idle, and released both; the storage was closed, and
\* db.close() was called again.
C16_Witness ==
    /\ Len(hist) >= 4
    /\ hist[Len(hist)].op = "DB.close"
    /\ hist[Len(hist)].arg = "noop"
    /\ HistOf("storage.close") # {}
    /\ \E c \in pool.all, d \in KeyedAll(hpool) :
           /\ c \in held[Caller]
           /\ d \in ConnsOf(IdleOf(pool, hpool, cbefore[d]))
           /\ {c, d} \subseteq Neutered
           /\ released[c] = 1
           /\ released[d] = 1

\* The connections some pool tracks.
Tracked == pool.all \cup KeyedAll(hpool)

\* C17: a connection that was constructed and is unreachable stays so: no
\* available list gets it and no thread holds it again; it leaves the `all`
\* set of its pool in the end; once no pool tracks it, none tracks it again,
\* no invalidate reaches it, and the push of a newly constructed connection
\* logs exactly when the connections the live pool still tracks are more than
\* pool_size.
C17_DroppedVanishes ==
    /\ \A c \in Conns : (c \in born /\ Unreachable(c)) ~> (c \notin Tracked)
    /\ [][\A c \in Conns :
              /\ (c \in born /\ Unreachable(c)) => Unreachable(c)'
              /\ (c \in born /\ c \notin Tracked) =>
                     /\ c \notin Tracked'
                     /\ invlog'[c] = invlog[c]]_vars
    /\ [][(ev'.op = "open" /\ ev'.err = "ok" /\ ev'.arg = NoKey
              /\ ev'.c \notin born) =>
              (ev'.log = "none" <=> Cardinality(pool'.all) <= pool.size)]_vars

\* C17's case: the first connection was dropped and has left the live pool,
\* an invalidate after that has reached the second one and not the first, and
\* the push of the second one, with pool_size 1, logged nothing.
C17_Witness ==
    /\ born = {1, 2}
    /\ cbefore[1] = NoKey
    /\ released[1] = 0
    /\ 1 \notin Tracked
    /\ pool.all = {2}
    /\ invlog[1] = <<>>
    /\ invlog[2] # <<>>
    /\ ev.op = "open" /\ ev.c = 2 /\ ev.log = "none"

\* C18: every connection the live pool tracks has the cache size the DB holds,
\* which only setCacheSize changes, to its argument, on the DB and on every
\* connection the live pool tracks, the one a concurrent open has constructed
\* too; a live connection is constructed with the cache size the DB holds; the
\* cache sizes of the historical connections and the historical cache size of
\* the DB stay as they were.
C18_SetCacheSizeAtomic ==
    /\ [](/\ \A c \in pool.all : csize.of[c] = csize.db
          /\ csize.hdb = 0
          /\ \A c \in KeyedAll(hpool) : csize.of[c] = 0)
    /\ [][/\ csize'.db # csize.db => ev'.op = "setCacheSize"
          /\ ev'.op = "setCacheSize" =>
                 /\ csize'.db = ev'.arg
                 /\ \A c \in pool.all : csize'.of[c] = ev'.arg
                 /\ \A c \in Conns \ pool.all : csize'.of[c] = csize.of[c]
          /\ (ev'.op = "open" /\ ev'.flag /\ ev'.c # NoConn) =>
                 csize'.of[ev'.c] = IF ev'.arg = NoKey THEN csize.db ELSE 0]_vars

\* C18's case: setCacheSize has run its body with a size that the DB did not
\* hold and has not returned, an open called meanwhile waits for the lock, a
\* checked-out live connection has got the size and a historical one has not.
C18_Witness ==
    /\ pc[Undoer] = "rel"
    /\ call[Undoer].op = "setCacheSize"
    /\ pc[Caller] = "acq"
    /\ call[Caller].op = "open"
    /\ call[Caller].key = NoKey
    /\ csize.db = MaxCache
    /\ \E c \in pool.all \cap held[Caller] : csize.of[c] = MaxCache
    /\ \E c \in KeyedAll(hpool) : csize.of[c] = 0
    /\ pool.available = <<>>

\* The calls, in order, that hist keeps of the operations of ops.
RECURSIVE CallsOf(_, _)
CallsOf(h, ops) ==
    IF h = <<>> THEN <<>>
    ELSE IF Head(h).op \in ops THEN <<Head(h).op>> \o CallsOf(Tail(h), ops)
    ELSE CallsOf(Tail(h), ops)

\* C19: load finds the root exactly when the storage holds it, and only
\* tpc_finish makes the storage hold it; once the constructor has returned,
\* the storage holds the root, and the constructor's calls on the storage
\* were load alone when load found the root, and load, tpc_begin, store,
\* tpc_vote and tpc_finish, once each in this order, when load raised KeyError.
C19_RootAfterConstruction ==
    /\ [](Constructed =>
              /\ root
              /\ hist[2].op = "load"
              /\ CallsOf(hist, BootOps \ {"temp.release"}) =
                     IF hist[2].arg = "ok" THEN <<"load">>
                     ELSE <<"load", "tpc_begin", "store", "tpc_vote",
                            "tpc_finish">>)
    /\ [][/\ ev'.op = "load" => (ev'.arg = "ok" <=> root)
          /\ root' # root => ev'.op = "tpc_finish"]_vars

\* C19's case: the storage held no root, the constructor stored it and
\* returned, and an open of the DB has returned a connection.
C19_Witness ==
    /\ Constructed
    /\ hist[2].arg = "KeyError"
    /\ root
    /\ held[Caller] # {}

\* Thread t's call of open gets past the checks to self._a().
Accepted(t) == pc[t] = "idle" /\ pc'[t] = "acq" /\ call'[t].op = "open"

\* C20: open(at=x) takes as key the successor of x, which is later than x
\* with no key in between; open(before=y) takes y; open() takes none; open with
\* both raises ValueError. An open of key k that returns a connection returns
\* one of the sub-pool of k, the live pool when k is none, and it is one that
\* was idle there, not a new one, whenever one was idle there.
C20_SnapshotKey ==
    /\ [][\A t \in Threads, x \in Keys :
              /\ (OpenCheck(t, x, NoKey) /\ Accepted(t)) =>
                     /\ call'[t].key > x
                     /\ \A k \in Keys : k > x => call'[t].key <= k
                     /\ OpenCheck(t, NoKey, call'[t].key)
              /\ (OpenCheck(t, NoKey, x) /\ Accepted(t)) => call'[t].key = x
              /\ (OpenCheck(t, NoKey, NoKey) /\ Accepted(t)) =>
                     call'[t].key = NoKey
              /\ \A y \in Keys : OpenCheck(t, x, y) =>
                     ev'.err = "ValueError" /\ pc'[t] = "idle"]_vars
    /\ [][\A t \in Threads :
              (pc[t] = "body" /\ call[t].op = "open" /\ ev'.op = "open"
                  /\ ev'.th = t /\ ev'.err = "ok") =>
                  /\ ev'.arg = call[t].key
                  /\ cbefore'[ev'.c] = call[t].key
                  /\ IF call[t].key = NoKey THEN ev'.c \in pool'.all
                     ELSE /\ call[t].key \in KeysOf(hpool')
                          /\ ev'.c \in hpool'.pools[call[t].key].all
                  /\ IdleOf(pool, hpool, call[t].key) # <<>> =>
                         /\ ~ev'.flag
                         /\ ev'.c \in ConnsOf(IdleOf(pool, hpool,
                                                     call[t].key))]_vars

\* C20's case: the thread that opens with at=x got a connection it
\* constructed, of key successor(x), and closed it; then the thread that opens
\* with before=successor(x) got the same connection.
C20_Witness ==
    /\ Len(hist) = 2
    /\ hist[1].th = Caller /\ hist[1].new /\ hist[1].key = LaterThan(lastTid)
    /\ hist[2].th = Undoer /\ ~hist[2].new /\ hist[2].key = LaterThan(lastTid)
    /\ hist[2].c = hist[1].c
    /\ hist[2].c \in held[Undoer]

\* C21 as claimed: whatever _release_resources raised while the pool was
\* reaping, every connection in available is in all, and pop() returns a
\* connection that is in all.
C21_ConsistentAfterRaise ==
    /\ ConnsOf(pool.available) \subseteq pool.all
    /\ ev.op = "pop" => ev.err = "ok" /\ ev.c \in pool.all \cup {NoConn}

\* C22 as claimed: the map of DB.close tears down every connection the two
\* pools track, whether or not the release of one of them raised.
C22_TeardownProceeds ==
    [][ev'.op = "closeMap" =>
          (pool.all \cup KeyedAll(hpool)) \subseteq ev'.arg]_vars

\* C23: a thread holds the lock, once, exactly while it is in the try block
\* of a DB method or about to leave it; when the method returns or raises, the
\* lock is free again, and a thread that waits for it can acquire it.
C23_LockReleased ==
    /\ [](/\ \A t \in Threads :
                 /\ pc[t] \in {"body", "rel"} =>
                        lock = [owner |-> t, count |-> 1]
                 /\ pc[t] \in {"idle", "acq"} => lock.owner # t
          /\ lock.owner = NoThread <=> lock.count = 0
          /\ \A t \in Threads :
                 (lock.owner = NoThread /\ pc[t] = "acq") => ENABLED Acquire(t))
    /\ [][\A t \in Threads :
              (pc[t] = "rel" /\ pc'[t] = "idle") =>
                  lock' = [owner |-> NoThread, count |-> 0]]_vars

\* C23's case: an open has raised in push, which leaves a constructed
\* connection that no pool tracks, and afterwards the other thread has
\* acquired the lock.
C23_Witness ==
    /\ \E c \in born :
           /\ c \notin pool.all \cup KeyedAll(hpool)
           /\ released[c] = 0
    /\ pc[Caller] = "idle"
    /\ pc[Undoer] = "body"
    /\ lock.owner = Undoer


\* C24: after a KeyedConnectionPool operation that reduces or collects
\* (reduce_size, availableGC, setSize, setTimeout) returned, every sub-pool
\* left in pools has a connection in its all.
C24_NoEmptySubPool ==
    (ev.op \in KeyedReductions /\ ev.err = "ok") =>
        \A k \in KeysOf(hpool) : hpool.pools[k].all # {}

\* The connections idle in pool p whose age at time t exceeds p's timeout.
Expired(p, t) ==
    {p.available[i].c :
        i \in {j \in 1..Len(p.available) : p.available[j].t < t - p.timeout}}

KeyedExpired(h, t) == UNION {Expired(h.pools[k], t) : k \in KeysOf(h)}

C26_DiscardsOldest ==
    [][ev'.op \in {"push", "repush", "setSize"} =>
          \A i, j \in 1..Len(pool.available) :
              (/\ pool.available[i].c \in {ev'.rel[k] : k \in 1..Len(ev'.rel)}
               /\ pool.available[i].t >= now - pool'.timeout
               /\ pool.available[j].c \in ConnsOf(pool'.available) \ {ev'.c})
                  => pool.available[i].t <= pool.available[j].t]_vars

\* C27: repush of a connection that is in available raises AssertionError and
\* leaves the pool as it was, and no connection is in available twice.
C27_RepushRejectsIdle ==
    /\ [](/\ ev.op = "repushIdle" => ev.err = "AssertionError"
          /\ NoDuplicates(pool.available))
    /\ [][ev'.op = "repushIdle" => pool' = pool]_vars

\* C28: every historical connection that a thread has checked out is in the all
\* of a sub-pool of its snapshot key, and no _returnToPool of a historical
\* connection raises KeyError.
C28_SubPoolKept ==
    /\ \A t \in Threads : \A c \in held[t] :
           cbefore[c] # NoKey =>
               /\ cbefore[c] \in KeysOf(hpool)
               /\ c \in hpool.pools[cbefore[c]].all
    /\ (ev.op = "close" /\ ev.arg # NoKey) => ev.err # "KeyError"

\* A historical connection was given back to a sub-pool whose other connection
\* had been reaped while it was out.
C28_Witness ==
    /\ ev.op = "close"
    /\ ev.err = "ok"
    /\ ev.arg # NoKey
    /\ ev.arg \in KeysOf(hpool)
    /\ hpool.pools[ev.arg].all = {ev.c}
    /\ \E d \in born \ {ev.c} : cbefore[d] = ev.arg /\ released[d] = 1

====
